---- MODULE Spec2Model ----
(***************************************************************************)
(* Wallet-Service: the transfer engine (TransactionService.topUp,          *)
(* issueBonus, spend), the wallet store and the ledger store, run by       *)
(* concurrent request handlers against one PostgreSQL database.            *)
(*                                                                         *)
(* Every await of the source that touches the database is one step of a    *)
(* handler, together with the synchronous code that follows it up to the   *)
(* next await.  The statements inside prisma.$transaction run in one       *)
(* database transaction at the isolation level the source asks for: the    *)
(* transaction reads from the snapshot taken by its first query, an UPDATE *)
(* takes the row's lock until commit or rollback, waits while another      *)
(* transaction holds it, and fails with a serialization error when the row *)
(* was changed by a transaction that committed after the snapshot.  A      *)
(* Serializable transaction of PostgreSQL can also be refused, at any of   *)
(* its statements after the snapshot or at COMMIT, once a transaction that *)
(* ran beside it has committed: the database tracks read/write             *)
(* dependencies at the granularity its query plans give (a page, a whole   *)
(* relation), so the refusal is a choice of the database.  A plain SELECT  *)
(* (findMany) takes no row lock.  The database's deadlock detector aborts  *)
(* one transaction of a cycle of waiting transactions.                     *)
(*                                                                         *)
(* Amounts and balances are whole numbers of the asset's smallest unit.    *)
(* Wallet ids (UUIDs in the database) are numbers; their order stands for  *)
(* the order of the id strings.  A ledger row's id is its position in the  *)
(* ledger, the order in which the rows were committed.  createdAt is a     *)
(* millisecond count: rows created within one millisecond carry the same   *)
(* value.                                                                  *)
(***************************************************************************)
EXTENDS Integers, Sequences, FiniteSets, TLC

VARIABLES
    users,      \* the users table: the set of account ids
    wallets,    \* the wallets table (committed): id -> [userId, assetTypeId, balance, ver]
    ledger,     \* the transactions table (committed rows, in commit order)
    pc,         \* where each request handler is
    req,        \* the arguments of the call a handler is running
    userWallet,     \* the handler's local userWallet.id (0: not yet fetched)
    treasuryWallet, \* the handler's local treasuryWallet.id (0: not yet fetched)
    snap,       \* the rows a handler's database transaction read (its snapshot)
    locked,     \* the wallet rows a handler's transaction holds locked, in the order taken
    result,     \* what the handler's call returned or threw
    calls,      \* number of calls started so far
    txLedger,   \* the ledger rows a handler's open transaction wrote (uncommitted)
    attempts,   \* how many times the caller has made the handler's current call
    clock,      \* the database's clock (CURRENT_TIMESTAMP), in milliseconds
    view,       \* what the last read operation of the services returned
    overlapped, \* whether a transaction committed while the handler's transaction was open
    rd          \* where each reader (a call of a read operation) is

vars == <<users, wallets, ledger, pc, req, userWallet, treasuryWallet,
          snap, locked, result, calls, txLedger, attempts,
          clock, view, overlapped, rd>>

(***************************************************************************)
(* Bounds of the model.                                                    *)
(***************************************************************************)
MaxCalls == 2

Procs == {"p1", "p2"}

ScenarioProcs == {"p1", "p2", "p3"}

Readers == {"r1", "r2"}

\* The seeded wallets are 1..9; a wallet created later gets 10 or 11.
WalletIds == 1..11

(***************************************************************************)
(* The seeded data: three asset types, the Treasury and the users alice    *)
(* and bob.  Most scenarios trade in GOLD.                                 *)
(***************************************************************************)
TreasuryUserId == "treasury"

TreasuryInitialBalance == 1000000

SeedUsers == {TreasuryUserId, "alice", "bob"}

AssetTypes == {"GOLD", "DIAMOND", "LOYALTY_POINTS"}

\* The two asset types the scenarios with more than one asset trade in.
GoldAndDiamond == {"GOLD", "DIAMOND"}

\* The asset type most scenarios trade in.
GoldOnly == {"GOLD"}

AssetNames == {"GOLD", "SILVER"}

Ops == {"topUp", "issueBonus", "spend"}

Undefined == "<undefined>"

NoMetadata == "<null>"

Keys == {Undefined, "k1"}

Amounts == {-1, 1}

NoReq == [op |-> "none", userId |-> "none", assetTypeName |-> "none",
          amount |-> 0, idempotencyKey |-> Undefined]

NoResult == [status |-> "NONE", entry |-> 0, replayed |-> FALSE]

Args(ops, userIds, names, amounts, keys) ==
    [op : ops, userId : userIds, assetTypeName : names,
     amount : amounts, idempotencyKey : keys]

MainArgs == Args(Ops, {"alice"}, GoldOnly, Amounts, Keys)

(***************************************************************************)
(* Helpers on sets and sequences.                                          *)
(***************************************************************************)
Range(s) == {s[i] : i \in DOMAIN s}

Min(S) == CHOOSE x \in S : \A y \in S : x <= y

RECURSIVE SortedSeq(_)
SortedSeq(S) ==
    IF S = {} THEN <<>> ELSE <<Min(S)>> \o SortedSeq(S \ {Min(S)})

\* Array.prototype.sort() on an array of ids: ascending, duplicates kept.
Sort(s) == SortSeq(s, LAMBDA x, y : x < y)

(***************************************************************************)
(* Asset registry and account directory.                                   *)
(***************************************************************************)
NoRow == "<none>"

\* AssetTypeDbAccess.findByName: the asset type's id, or NoRow.
FindByName(name) == IF name \in AssetTypes THEN name ELSE NoRow

\* Mutant: the Treasury is found whether or not its account exists.
FindTreasuryUserAlways(us) == TreasuryUserId

\* UserDbAccess.findTreasuryUser: the Treasury's user id, or NoRow.
FindTreasuryUser(us) == IF TreasuryUserId \in us THEN TreasuryUserId ELSE NoRow

(***************************************************************************)
(* Wallet store.                                                           *)
(***************************************************************************)
\* Mutant: the wallet lookup ignores the asset type.
WalletsOfAnyAsset(ws, userId, assetTypeId) ==
    {w \in DOMAIN ws : ws[w].userId = userId}

\* where: { userId_assetTypeId }: the wallets of the pair (at most one).
WalletsOf(ws, userId, assetTypeId) ==
    {w \in DOMAIN ws : ws[w].userId = userId /\ ws[w].assetTypeId = assetTypeId}

\* Mutant: the fetch returns the first of the wallets only.
FindManyByIdsFirst(ws, walletIds) ==
    LET found == SelectSeq(Sort(walletIds), LAMBDA w : w \in DOMAIN ws)
    IN  IF found = <<>> THEN <<>> ELSE <<Head(found)>>

\* Mutant: the wallets come back in the order of the ids given.
FindManyByIdsAsGiven(ws, walletIds) ==
    SelectSeq(walletIds, LAMBDA w : w \in DOMAIN ws)

\* findManyByIds: the existing wallets among the ids, ascending by id.
FindManyByIds(ws, walletIds) ==
    LET sortedIds == Sort(walletIds)
    IN  IF Len(sortedIds) = 0 THEN <<>>
        ELSE SortedSeq(Range(sortedIds) \cap DOMAIN ws)

(***************************************************************************)
(* Ledger store.                                                           *)
(***************************************************************************)
\* Mutant: the empty string counts as a key.
TruthyEmpty(key) == key # Undefined

\* if (idempotencyKey): undefined and the empty string are falsy.
Truthy(key) == key # Undefined /\ key # ""

\* metadata: idempotencyKey ? { idempotencyKey } : undefined
Metadata(key) == IF Truthy(key) THEN key ELSE NoMetadata

\* Mutant: the lookup matches deposits only.
FindByIdempotencyKeyDeposits(rows, key) ==
    {i \in DOMAIN rows : rows[i].metadata = key /\ rows[i].type = "DEPOSIT"}

\* Mutant: the lookup matches nothing.
FindByIdempotencyKeyNoMatch(rows, key) == {}

\* findByIdempotencyKey: the rows findFirst may return (no orderBy: any of them).
FindByIdempotencyKey(rows, key) ==
    {i \in DOMAIN rows : rows[i].metadata = key}

(***************************************************************************)
(* Transfer engine: roles of one call.                                     *)
(***************************************************************************)
IsDeposit(op) == op \in {"topUp", "issueBonus"}

\* Mutant: the Treasury's wallet is the sender of every operation.
SenderWalletTreasury(p) == treasuryWallet[p]

SenderWallet(p) == IF IsDeposit(req[p].op) THEN treasuryWallet[p] ELSE userWallet[p]

\* Mutant: the user's wallet is the receiver of every operation.
ReceiverWalletUser(p) == userWallet[p]

ReceiverWallet(p) == IF IsDeposit(req[p].op) THEN userWallet[p] ELSE treasuryWallet[p]

\* Mutant: every ledger row is written as a WITHDRAWAL.
TransactionTypeWithdrawal(op) == "WITHDRAWAL"

TransactionType(op) == IF IsDeposit(op) THEN "DEPOSIT" ELSE "WITHDRAWAL"

\* Mutant: the transaction runs at the database's default isolation level.
IsolationLevelDefault == "ReadCommitted"

\* The isolation level passed to prisma.$transaction.
IsolationLevel == "Serializable"

\* Mutant: the balance check is missing.
InsufficientNoCheck(balance, amount) == FALSE

\* Mutant: the check also rejects an amount equal to the balance.
InsufficientOrEqual(balance, amount) == balance <= amount

\* if (balance < amount) throw: the debited wallet's balance check.
Insufficient(balance, amount) == balance < amount

\* Mutant: the sender's wallet is not decremented.
DeltaCreditOnly(p, w) ==
    IF w = (IF req[p].op \in {"topUp", "issueBonus"} THEN userWallet[p] ELSE treasuryWallet[p])
    THEN req[p].amount ELSE 0

\* Mutant: the receiver's wallet is not incremented.
DeltaDebitOnly(p, w) ==
    IF w = (IF req[p].op \in {"topUp", "issueBonus"} THEN treasuryWallet[p] ELSE userWallet[p])
    THEN 0 - req[p].amount ELSE 0

\* The change the transaction's two updates make to wallet w.
Delta(p, w) ==
    (IF w = ReceiverWallet(p) THEN req[p].amount ELSE 0)
    - (IF w = SenderWallet(p) THEN req[p].amount ELSE 0)

LockedBy(p) == Range(locked[p])

\* The row the transaction's next UPDATE writes.
NextRow(p) == IF pc[p] = "debit" THEN SenderWallet(p) ELSE ReceiverWallet(p)

\* Mutant: an UPDATE never fails on a row changed since the snapshot.
WriteConflictNever(p, w) == FALSE

\* The row was changed by a transaction that committed after p's snapshot:
\* the UPDATE is refused at once, whoever holds the row's lock now.
WriteConflict(p, w) ==
    IsolationLevel = "Serializable" /\ wallets[w].ver # snap[p][w].ver

\* p's UPDATE waits for the row lock q's transaction holds: the row is as
\* p's snapshot has it, and q has written it and not yet ended.
WaitsFor(p, q) ==
    /\ p # q
    /\ pc[p] \in {"debit", "credit"}
    /\ NextRow(p) \in LockedBy(q)
    /\ ~WriteConflict(p, NextRow(p))

\* The handler's transaction has taken its snapshot and is still open.
InSnapshot(p) == pc[p] \in {"create", "debit", "credit", "finalize", "commit"}

\* Whether the database refuses the statement (or the COMMIT) the handler's
\* transaction is about to run with a serialization failure: never at
\* another isolation level or while no transaction has committed beside it,
\* and otherwise as the database decides.
SerializationFailure(p) ==
    IF IsolationLevel = "Serializable" /\ overlapped[p] THEN BOOLEAN ELSE {FALSE}

\* The change the transaction's UPDATEs have made to wallet w so far.
Applied(p, w) ==
    (IF pc[p] \in {"finalize", "commit"} /\ w = ReceiverWallet(p)
     THEN req[p].amount ELSE 0)
    - (IF pc[p] \in {"credit", "finalize", "commit"} /\ w = SenderWallet(p)
       THEN req[p].amount ELSE 0)

\* The wallets table as the handler's open transaction has written it.
TxWallets(p) ==
    [w \in DOMAIN wallets |-> [wallets[w] EXCEPT !.balance = @ + Applied(p, w)]]

\* Mutant: an error leaves what the transaction wrote.
RolledBackKeeps(committed, written) == written

\* An error thrown inside prisma.$transaction rolls the transaction back:
\* the table is left as committed, without what the transaction wrote.
RolledBack(committed, written) == committed

\* Mutant: the engine runs the atomic unit again after a serialization error.
AfterErrorRetry(error) == IF error = "SerializationConflict" THEN "begin" ELSE "done"

\* Every error is thrown to the caller: the call is over.
AfterError(error) == "done"

\* What no step of a request handler changes.
Frame == UNCHANGED <<users, req, calls, attempts, view, rd>>

Fail(p, error) ==
    /\ result' = [result EXCEPT ![p] = [status |-> error, entry |-> 0, replayed |-> FALSE]]
    /\ pc' = [pc EXCEPT ![p] = AfterError(error)]
    /\ wallets' = RolledBack(wallets, TxWallets(p))
    /\ ledger' = RolledBack(ledger, ledger \o txLedger[p])
    /\ txLedger' = [txLedger EXCEPT ![p] = <<>>]
    /\ snap' = [snap EXCEPT ![p] = <<>>]
    /\ locked' = [locked EXCEPT ![p] = <<>>]
    /\ userWallet' = [userWallet EXCEPT ![p] = 0]
    /\ treasuryWallet' = [treasuryWallet EXCEPT ![p] = 0]
    /\ overlapped' = [overlapped EXCEPT ![p] = FALSE]
    /\ UNCHANGED clock

\* The handler goes on to its next await; nothing else changes.
Goto(p, step) ==
    /\ pc' = [pc EXCEPT ![p] = step]
    /\ UNCHANGED <<wallets, ledger, txLedger, result, snap, locked,
                   userWallet, treasuryWallet, clock, overlapped>>

(***************************************************************************)
(* The handler's steps.                                                    *)
(***************************************************************************)
\* Mutant: the asset and the Treasury are resolved before the idempotency lookup.
FollowingAssetFirst(step, key) ==
    CASE step = "call" -> "asset"
      [] step = "asset" -> "treasury"
      [] step = "treasury" -> (IF Truthy(key) THEN "lookup" ELSE "getWallet1")
      [] step = "lookup" -> "getWallet1"

\* The order of the checks of topUp, issueBonus and spend: the await that
\* follows a step.  The idempotency lookup is made only if (idempotencyKey).
Following(step, key) ==
    CASE step = "call" -> (IF Truthy(key) THEN "lookup" ELSE "asset")
      [] step = "lookup" -> "asset"
      [] step = "asset" -> "treasury"
      [] step = "treasury" -> "getWallet1"

\* A request handler calls topUp, issueBonus or spend.
Call(p, args) ==
    /\ pc[p] \in {"idle", "done"}
    /\ calls' = calls + 1
    /\ req' = [req EXCEPT ![p] = args]
    /\ pc' = [pc EXCEPT ![p] = Following("call", args.idempotencyKey)]
    /\ result' = [result EXCEPT ![p] = NoResult]
    /\ attempts' = [attempts EXCEPT ![p] = 1]
    /\ UNCHANGED <<users, wallets, ledger, userWallet, treasuryWallet, snap, locked,
                   txLedger, clock, view, overlapped, rd>>

\* The caller repeats, with the same arguments, a call that ended in a
\* serialization error.
Retry(p) ==
    /\ pc[p] = "done"
    /\ result[p].status = "SerializationConflict"
    /\ calls' = calls + 1
    /\ pc' = [pc EXCEPT ![p] = Following("call", req[p].idempotencyKey)]
    /\ result' = [result EXCEPT ![p] = NoResult]
    /\ attempts' = [attempts EXCEPT ![p] = @ + 1]
    /\ UNCHANGED <<users, wallets, ledger, req, userWallet, treasuryWallet, snap, locked,
                   txLedger, clock, view, overlapped, rd>>

\* Mutant: topUp returns the row found, like issueBonus and spend.
RejectsDuplicateNever(op) == FALSE

\* On an idempotency hit topUp throws; issueBonus and spend return the row found.
RejectsDuplicate(op) == op = "topUp"

\* await transactionDb.findByIdempotencyKey(idempotencyKey), and what the
\* operation does with the row found.
Lookup(p) ==
    /\ pc[p] = "lookup"
    /\ LET key == req[p].idempotencyKey
           existing == FindByIdempotencyKey(ledger, key)
       IN  IF existing # {}
           THEN IF RejectsDuplicate(req[p].op)
                THEN Fail(p, "DuplicateRequest")
                ELSE /\ \E e \in existing :
                          result' = [result EXCEPT ![p] =
                              [status |-> "OK", entry |-> e, replayed |-> TRUE]]
                     /\ pc' = [pc EXCEPT ![p] = "done"]
                     /\ UNCHANGED <<wallets, ledger, txLedger, snap, locked,
                                    userWallet, treasuryWallet, clock, overlapped>>
           ELSE Goto(p, Following("lookup", key))
    /\ Frame

\* await assetTypeDb.findByName(assetTypeName).
FindAssetType(p) ==
    /\ pc[p] = "asset"
    /\ IF FindByName(req[p].assetTypeName) = NoRow
       THEN Fail(p, "AssetNotFound")
       ELSE Goto(p, Following("asset", req[p].idempotencyKey))
    /\ Frame

\* await userDb.findTreasuryUser().
FindTreasury(p) ==
    /\ pc[p] = "treasury"
    /\ IF FindTreasuryUser(users) = NoRow
       THEN Fail(p, "TreasuryNotConfigured")
       ELSE Goto(p, Following("treasury", req[p].idempotencyKey))
    /\ Frame

\* The handler's first wallet is the user's in spend, the Treasury's otherwise.
ForUser(p, first) == (first = ~IsDeposit(req[p].op))

\* Mutant: both wallets are fetched for the user's account.
WalletUserIdUser(p, first) == req[p].userId

WalletUserId(p, first) ==
    IF ForUser(p, first) THEN req[p].userId ELSE FindTreasuryUser(users)

\* const userWallet / treasuryWallet = the wallet getOrCreateWallet returned.
Got(p, first, w) ==
    /\ IF ForUser(p, first)
       THEN userWallet' = [userWallet EXCEPT ![p] = w] /\ UNCHANGED treasuryWallet
       ELSE treasuryWallet' = [treasuryWallet EXCEPT ![p] = w] /\ UNCHANGED userWallet
    /\ pc' = [pc EXCEPT ![p] = IF first THEN "getWallet2" ELSE "begin"]
    /\ UNCHANGED <<result, snap, locked, txLedger, clock, overlapped>>

\* Mutant: the upsert's update resets the balance.
UpsertUpdateResets(row) == [row EXCEPT !.balance = 0]

\* update: {} of the upsert: the existing row is left as it is.
UpsertUpdate(row) == row

\* WalletDbAccess.getOrCreate (upsert), the read: the wallet of the pair is
\* returned (update: {}); when there is none the upsert goes on to insert one.
GetOrCreate(p, first) ==
    LET found == WalletsOf(wallets, WalletUserId(p, first),
                           FindByName(req[p].assetTypeName))
    IN  /\ pc[p] = (IF first THEN "getWallet1" ELSE "getWallet2")
        /\ IF found # {}
           THEN /\ \E w \in found :
                    /\ Got(p, first, w)
                    /\ wallets' = [wallets EXCEPT ![w] = UpsertUpdate(@)]
                /\ UNCHANGED ledger
           ELSE Goto(p, IF first THEN "insert1" ELSE "insert2")
        /\ Frame

\* Mutant: a new wallet starts with a balance of 100.
NewWalletFunded(userId, assetTypeId) ==
    [userId |-> userId, assetTypeId |-> assetTypeId, balance |-> 100, ver |-> 0]

\* create: { userId, assetTypeId, balance: 0 } of the upsert.
NewWallet(userId, assetTypeId) ==
    [userId |-> userId, assetTypeId |-> assetTypeId, balance |-> 0, ver |-> 0]

\* Mutant: the wallets table has no unique index on the pair.
UniqueViolationNever(ws, userId, assetTypeId) == FALSE

\* The unique index wallets_userId_assetTypeId_key rejects a second row of a pair.
UniqueViolation(ws, userId, assetTypeId) == WalletsOf(ws, userId, assetTypeId) # {}

\* The wallets table with one more row, under the id w.
Inserted(ws, w, row) ==
    [x \in DOMAIN ws \cup {w} |-> IF x = w THEN row ELSE ws[x]]

\* WalletDbAccess.getOrCreate (upsert), the insert of a wallet with balance 0.
InsertWallet(p, first) ==
    LET userId == WalletUserId(p, first)
        assetTypeId == FindByName(req[p].assetTypeName)
    IN  /\ pc[p] = (IF first THEN "insert1" ELSE "insert2")
        /\ IF userId \notin users
           THEN Fail(p, "ForeignKeyViolation")
           ELSE IF UniqueViolation(wallets, userId, assetTypeId)
           THEN Fail(p, "UniqueConstraintViolation")
           ELSE \E w \in WalletIds \ DOMAIN wallets :
                /\ wallets' = Inserted(wallets, w, NewWallet(userId, assetTypeId))
                /\ Got(p, first, w)
                /\ UNCHANGED ledger
        /\ Frame

InsertWalletFirst(p) == InsertWallet(p, TRUE)

InsertWalletSecond(p) == InsertWallet(p, FALSE)

GetOrCreateFirst(p) == GetOrCreate(p, TRUE)

GetOrCreateSecond(p) == GetOrCreate(p, FALSE)

\* prisma.$transaction opens the database transaction.
TxBegin(p) ==
    /\ pc[p] = "begin"
    /\ Goto(p, "fetch")
    /\ Frame

\* await walletDb.findManyByIds(tx, walletIds.sort()): the transaction's
\* first query, which takes its snapshot; then the two checks made on the
\* rows fetched.
Fetch(p) ==
    /\ pc[p] = "fetch"
    /\ LET walletIds == Sort(<<treasuryWallet[p], userWallet[p]>>)
           fetched == FindManyByIds(wallets, walletIds)
       IN  IF ~({treasuryWallet[p], userWallet[p]} \subseteq Range(fetched))
           THEN Fail(p, "WalletNotFound")
           ELSE IF Insufficient(wallets[SenderWallet(p)].balance, req[p].amount)
           THEN Fail(p, "InsufficientBalance")
           ELSE /\ snap' = [snap EXCEPT ![p] = [w \in Range(fetched) |-> wallets[w]]]
                /\ pc' = [pc EXCEPT ![p] = "create"]
                /\ UNCHANGED <<wallets, ledger, result, locked, txLedger,
                               userWallet, treasuryWallet, clock, overlapped>>
    /\ Frame

\* The millisecond a row created now is stamped with: the one of the row
\* created last, or a later one; the rows that were there at the start are
\* older than every row created since.
Now == IF clock = 0 THEN {1} ELSE {clock, clock + 1}

\* TransactionDbAccess.create: the ledger row, written with status PENDING
\* and the time of its creation (createdAt DEFAULT CURRENT_TIMESTAMP).
Create(p, now) ==
    [senderWalletId |-> SenderWallet(p),
     receiverWalletId |-> ReceiverWallet(p),
     amount |-> req[p].amount,
     type |-> TransactionType(req[p].op),
     status |-> "PENDING",
     metadata |-> Metadata(req[p].idempotencyKey),
     createdAt |-> now]

\* await transactionDb.create(tx, ...): the PENDING ledger row.
CreateTransaction(p) ==
    /\ pc[p] = "create"
    /\ \E fails \in SerializationFailure(p) :
          IF fails
          THEN Fail(p, "SerializationConflict")
          ELSE \E now \in Now :
                  /\ clock' = now
                  /\ txLedger' = [txLedger EXCEPT ![p] = <<Create(p, now)>>]
                  /\ pc' = [pc EXCEPT ![p] = "debit"]
                  /\ UNCHANGED <<wallets, ledger, result, snap, locked,
                                 userWallet, treasuryWallet, overlapped>>
    /\ Frame

\* tx.wallet.update: refused at once when the row was changed by a
\* transaction committed since the snapshot; otherwise it waits while
\* another transaction holds the row's lock, and then takes the lock or is
\* refused by the database's serialization check.
Update(p, w, next) ==
    /\ IF WriteConflict(p, w)
       THEN Fail(p, "SerializationConflict")
       ELSE /\ \A q \in DOMAIN pc : q # p => w \notin LockedBy(q)
            /\ \E fails \in SerializationFailure(p) :
                  IF fails
                  THEN Fail(p, "SerializationConflict")
                  ELSE /\ locked' = [locked EXCEPT ![p] =
                                       IF w \in LockedBy(p) THEN @ ELSE Append(@, w)]
                       /\ pc' = [pc EXCEPT ![p] = next]
                       /\ UNCHANGED <<wallets, ledger, txLedger, result, snap,
                                      userWallet, treasuryWallet, clock, overlapped>>
    /\ Frame

\* WalletDbAccess.decrementBalance on the sender's wallet.
DecrementBalance(p) ==
    /\ pc[p] = "debit"
    /\ Update(p, SenderWallet(p), "credit")

\* WalletDbAccess.incrementBalance on the receiver's wallet.
IncrementBalance(p) ==
    /\ pc[p] = "credit"
    /\ Update(p, ReceiverWallet(p), "finalize")

\* Mutant: the row's status is left as it was.
UpdateStatusSkipped(row, status) == row

\* TransactionDbAccess.updateStatus: the row with its new status.
UpdateStatus(row, status) == [row EXCEPT !.status = status]

\* await transactionDb.updateStatus(tx, transaction.id, COMPLETED).
Finalize(p) ==
    /\ pc[p] = "finalize"
    /\ \E fails \in SerializationFailure(p) :
          IF fails
          THEN Fail(p, "SerializationConflict")
          ELSE /\ txLedger' = [txLedger EXCEPT ![p] =
                                  <<UpdateStatus(@[1], "COMPLETED")>>]
               /\ pc' = [pc EXCEPT ![p] = "commit"]
               /\ UNCHANGED <<wallets, ledger, result, snap, locked,
                              userWallet, treasuryWallet, clock, overlapped>>
    /\ Frame

\* The ledger row the transaction wrote.
Entry(p) == txLedger[p][1]

\* Mutant: the commit replaces the table by the transaction's rows.
CommitRowsOnly(committed, written) == written

\* The commit makes the transaction's rows visible, after the committed rows.
CommitRows(committed, written) == committed \o written

\* The COMMIT of prisma.$transaction: what the transaction wrote becomes
\* visible, and every transaction that holds a snapshot has from now on
\* run beside a committed one; or the database refuses the COMMIT.
Commit(p) ==
    /\ pc[p] = "commit"
    /\ \E fails \in SerializationFailure(p) :
          IF fails
          THEN Fail(p, "SerializationConflict")
          ELSE /\ wallets' = [w \in DOMAIN wallets |->
                                IF w \in LockedBy(p)
                                THEN [wallets[w] EXCEPT !.balance = @ + Delta(p, w),
                                                        !.ver = @ + 1]
                                ELSE wallets[w]]
               /\ ledger' = CommitRows(ledger, <<Entry(p)>>)
               /\ result' = [result EXCEPT ![p] =
                               [status |-> "OK", entry |-> Len(ledger) + 1,
                                replayed |-> FALSE]]
               /\ pc' = [pc EXCEPT ![p] = "done"]
               /\ snap' = [snap EXCEPT ![p] = <<>>]
               /\ locked' = [locked EXCEPT ![p] = <<>>]
               /\ userWallet' = [userWallet EXCEPT ![p] = 0]
               /\ treasuryWallet' = [treasuryWallet EXCEPT ![p] = 0]
               /\ txLedger' = [txLedger EXCEPT ![p] = <<>>]
               /\ overlapped' = [q \in DOMAIN pc |->
                                   q # p /\ (overlapped[q] \/ InSnapshot(q))]
               /\ UNCHANGED clock
    /\ Frame

\* Mutant: a waiting cycle is never detected.
DeadlockNeverDetected(p) == FALSE /\ UNCHANGED vars

\* p's UPDATE waits for a row that another transaction holds locked.  A
\* handler at its UPDATE has sent the statement: sending it and waiting for
\* the row are one position of the handler.  An UPDATE of a row changed
\* since the snapshot does not wait, it is refused at once.
Waiting(p) == \E q \in DOMAIN pc : WaitsFor(p, q)

\* p and q wait for the same row: the one that asked for it first stands
\* ahead in the row's queue, and the other waits for it too.  The model does
\* not record who asked first, so either may stand behind the other.
QueuedBehind(p, q) ==
    /\ p # q
    /\ Waiting(p)
    /\ Waiting(q)
    /\ NextRow(p) = NextRow(q)

\* The waiting cycles through p the database's lock manager can see: each
\* transaction of the cycle waits for the next, for a row the next holds or
\* behind it in a row's queue, and at least one waits for a row that is held.
WaitCycles(p) ==
    {c \in UNION {[1..n -> DOMAIN pc] : n \in 2..Cardinality(DOMAIN pc)} :
        /\ c[1] = p
        /\ \A i, j \in DOMAIN c : i # j => c[i] # c[j]
        /\ \A i \in DOMAIN c :
              \/ WaitsFor(c[i], c[(i % Len(c)) + 1])
              \/ QueuedBehind(c[i], c[(i % Len(c)) + 1])
        /\ \E i \in DOMAIN c : WaitsFor(c[i], c[(i % Len(c)) + 1])}

\* The database's deadlock detector aborts a transaction of a waiting cycle.
DeadlockAbort(p) ==
    /\ Waiting(p)
    /\ WaitCycles(p) # {}
    /\ Fail(p, "SerializationConflict")
    /\ Frame

\* The steps of a call after the idempotency lookup.
Step(p) ==
    \/ FindAssetType(p)
    \/ FindTreasury(p)
    \/ GetOrCreateFirst(p)
    \/ GetOrCreateSecond(p)
    \/ TxBegin(p)
    \/ Fetch(p)
    \/ CreateTransaction(p)
    \/ DecrementBalance(p)
    \/ IncrementBalance(p)
    \/ Finalize(p)
    \/ Commit(p)

(***************************************************************************)
(* The seeded database: for each asset type the Treasury's wallet holds    *)
(* the initial pool, alice's and bob's wallets are empty.                  *)
(***************************************************************************)
SeededWallet(userId, assetTypeId) ==
    [userId |-> userId, assetTypeId |-> assetTypeId,
     balance |-> IF userId = TreasuryUserId THEN TreasuryInitialBalance ELSE 0,
     ver |-> 0]

SeedWallets ==
    (1 :> SeededWallet("alice", "GOLD"))
    @@ (2 :> SeededWallet(TreasuryUserId, "GOLD"))
    @@ (3 :> SeededWallet("bob", "GOLD"))
    @@ (4 :> SeededWallet(TreasuryUserId, "DIAMOND"))
    @@ (5 :> SeededWallet(TreasuryUserId, "LOYALTY_POINTS"))
    @@ (6 :> SeededWallet("alice", "DIAMOND"))
    @@ (7 :> SeededWallet("alice", "LOYALTY_POINTS"))
    @@ (8 :> SeededWallet("bob", "DIAMOND"))
    @@ (9 :> SeededWallet("bob", "LOYALTY_POINTS"))

\* No read operation has returned yet.
NoView == [n |-> 0, op |-> "none", args |-> <<>>, status |-> "NONE", value |-> <<>>]

\* A reader that runs no read operation.
IdleReader == [pc |-> "idle", op |-> "none", args |-> <<>>, ids |-> {}]

\* No call is under way; the rows the ledger holds were created before
\* (createdAt 0).
InitHandlers(procs) ==
    /\ pc = [p \in procs |-> "idle"]
    /\ req = [p \in procs |-> NoReq]
    /\ userWallet = [p \in procs |-> 0]
    /\ treasuryWallet = [p \in procs |-> 0]
    /\ snap = [p \in procs |-> <<>>]
    /\ locked = [p \in procs |-> <<>>]
    /\ result = [p \in procs |-> NoResult]
    /\ calls = 0
    /\ txLedger = [p \in procs |-> <<>>]
    /\ attempts = [p \in procs |-> 0]
    /\ clock = 0
    /\ view = NoView
    /\ overlapped = [p \in procs |-> FALSE]
    /\ rd = [r \in Readers |-> IdleReader]

Init ==
    /\ users = SeedUsers
    /\ wallets = SeedWallets
    /\ ledger = <<>>
    /\ InitHandlers(Procs)

\* Every account the calls name has its wallets in the seeded database, so
\* the upsert of getOrCreate always finds its row and never reaches its insert.
Next ==
    \E p \in Procs :
        \/ \E args \in MainArgs : calls < MaxCalls /\ Call(p, args)
        \/ Lookup(p)
        \/ Step(p)
        \/ DeadlockAbort(p)

Spec == Init /\ [][Next]_vars

(***************************************************************************)
(* The funded scenario: alice's GOLD wallet holds 100 after one topUp of   *)
(* 100, and each of three request handlers makes at most one call, a       *)
(* topUp or a spend for alice.                                             *)
(***************************************************************************)
FundedWallets ==
    [w \in DOMAIN SeedWallets |->
        IF w = 1 THEN [SeedWallets[w] EXCEPT !.balance = 100, !.ver = 1]
        ELSE IF w = 2
        THEN [SeedWallets[w] EXCEPT !.balance = TreasuryInitialBalance - 100, !.ver = 1]
        ELSE SeedWallets[w]]

FundedLedger ==
    << [senderWalletId |-> 2, receiverWalletId |-> 1, amount |-> 100,
        type |-> "DEPOSIT", status |-> "COMPLETED", metadata |-> NoMetadata,
        createdAt |-> 0] >>

FundedArgs == Args({"topUp", "spend"}, {"alice"}, GoldOnly, {30, 60}, {Undefined})

FundedInit ==
    /\ users = SeedUsers
    /\ wallets = FundedWallets
    /\ ledger = FundedLedger
    /\ InitHandlers(ScenarioProcs)

(***************************************************************************)
(* Calls as the request layer makes them (amount > 0), from the funded     *)
(* state, by two request handlers.                                         *)
(***************************************************************************)
ValidArgs ==
    Args(Ops, {"alice"}, GoldOnly, {60}, Keys)
    \cup Args(Ops, {TreasuryUserId}, GoldOnly, {60}, {Undefined})

ValidInit ==
    /\ users = SeedUsers
    /\ wallets = FundedWallets
    /\ ledger = FundedLedger
    /\ InitHandlers(Procs)

ValidNext ==
    \E p \in Procs :
        \/ \E args \in ValidArgs : calls < MaxCalls /\ Call(p, args)
        \/ Lookup(p)
        \/ Step(p)
        \/ DeadlockAbort(p)

ValidSpec == ValidInit /\ [][ValidNext]_vars

FundedNext ==
    \E p \in ScenarioProcs :
        \/ \E args \in FundedArgs : pc[p] = "idle" /\ Call(p, args)
        \/ Step(p)
        \/ DeadlockAbort(p)

FundedSpec == FundedInit /\ [][FundedNext]_vars

(***************************************************************************)
(* First use: the seeded database and one more account, carol, that has    *)
(* no wallet yet.  Each of two request handlers makes at most one call, a  *)
(* topUp or a spend of 100 or of more than the Treasury holds.  Here the   *)
(* upsert of getOrCreate reaches its insert.  No two calls wait for each   *)
(* other's row locks here: a spend finds its wallet empty unless a topUp   *)
(* has committed, and then a single call is left.                          *)
(***************************************************************************)
FirstUseUsers == SeedUsers \cup {"carol"}

FirstUseArgs ==
    Args({"topUp", "spend"}, {"alice", "carol"}, GoldOnly,
         {100, TreasuryInitialBalance + 1}, {Undefined})

FirstUseInit ==
    /\ users = FirstUseUsers
    /\ wallets = SeedWallets
    /\ ledger = <<>>
    /\ InitHandlers(Procs)

FirstUseNext ==
    \E p \in Procs :
        \/ \E args \in FirstUseArgs : pc[p] = "idle" /\ Call(p, args)
        \/ Step(p)
        \/ InsertWalletFirst(p)
        \/ InsertWalletSecond(p)

FirstUseSpec == FirstUseInit /\ [][FirstUseNext]_vars

(***************************************************************************)
(* Retry: from the funded state two request handlers make one call each,   *)
(* and the caller of a call that ended in a serialization error repeats    *)
(* it.                                                                     *)
(***************************************************************************)
RetryArgs == Args({"topUp", "spend"}, {"alice"}, GoldOnly, {60}, Keys)

RetryNext ==
    \E p \in Procs :
        \/ \E args \in RetryArgs : pc[p] = "idle" /\ calls < MaxCalls /\ Call(p, args)
        \/ calls <= MaxCalls /\ Retry(p)
        \/ Lookup(p)
        \/ Step(p)
        \/ DeadlockAbort(p)

RetrySpec == ValidInit /\ [][RetryNext]_vars

(***************************************************************************)
(* Configuration: the database either is the funded one or has no Treasury *)
(* account (and then no Treasury wallet and no ledger row).  Two request   *)
(* handlers make calls that name a known or an unknown asset type, with    *)
(* amounts equal to the balance of alice's wallet and of the Treasury's.   *)
(***************************************************************************)
UserWallets == [w \in {w \in DOMAIN SeedWallets : SeedWallets[w].userId # TreasuryUserId}
                  |-> SeedWallets[w]]

ConfigArgs ==
    Args(Ops, {"alice"}, AssetNames, {100, TreasuryInitialBalance - 100}, Keys)

ConfigInit ==
    /\ \E configured \in BOOLEAN :
          /\ users = IF configured THEN SeedUsers ELSE SeedUsers \ {TreasuryUserId}
          /\ wallets = IF configured THEN FundedWallets ELSE UserWallets
          /\ ledger = IF configured THEN FundedLedger ELSE <<>>
    /\ InitHandlers(Procs)

ConfigNext ==
    \E p \in Procs :
        \/ \E args \in ConfigArgs : calls < MaxCalls /\ Call(p, args)
        \/ Lookup(p)
        \/ Step(p)
        \/ DeadlockAbort(p)

ConfigSpec == ConfigInit /\ [][ConfigNext]_vars

(***************************************************************************)
(* The read operations of the services: WalletService.getBalance,          *)
(* getWalletById, getUserWallets, getOrCreateWallet; the history of        *)
(* TransactionService; WalletDbAccess.findManyByIds.  Each runs outside    *)
(* any transaction of the engine and reads the committed tables, one       *)
(* query per step: a reader takes the call with the operation's first      *)
(* query and holds what the call has read so far; what the call returns    *)
(* is kept in view.  A wallet is returned as a list of rows.               *)
(***************************************************************************)
MaxReads == 2

MaxIds == 2

DefaultLimit == 50

Limits == {1, 2, DefaultLimit}

Skips == {0, 1}

\* The ids asked for: alice's GOLD wallet, the Treasury's, and an id that no
\* wallet has before a wallet is created.
ReadIds == {1, 2, 10}

\* The lists of at most MaxIds wallet ids, repetitions allowed.
IdSeqs == UNION {[1..n -> ReadIds] : n \in 0..MaxIds}

WalletRow(ws, w) ==
    [id |-> w, userId |-> ws[w].userId, assetTypeId |-> ws[w].assetTypeId,
     balance |-> ws[w].balance]

\* A ledger row as a query returns it, with its id.
TransactionRow(rows, i) ==
    [id |-> i, senderWalletId |-> rows[i].senderWalletId,
     receiverWalletId |-> rows[i].receiverWalletId, amount |-> rows[i].amount,
     type |-> rows[i].type, status |-> rows[i].status,
     metadata |-> rows[i].metadata, createdAt |-> rows[i].createdAt]

Returned(op, args, status, value) ==
    [n |-> view.n + 1, op |-> op, args |-> args, status |-> status, value |-> value]

\* The enumerations of the set S: a findMany without orderBy returns its
\* rows in any order.
Orders(S) == {s \in [1..Cardinality(S) -> S] : Range(s) = S}

\* getWalletIdsByUserId: the ids of the account's wallets.
GetWalletIdsByUserId(ws, userId) == {w \in DOMAIN ws : ws[w].userId = userId}

\* Mutant: a row may come before the rows that are not older.
OrderByCreatedAtAsc(a, b) == a <= b

\* orderBy: { createdAt: "desc" }: a row created at a may come before a row
\* created at b.  The order of rows of one millisecond is the database's.
OrderByCreatedAtDesc(a, b) == a >= b

\* The orders in which the query may return the rows at the positions S.
RECURSIVE Ordered(_, _)
Ordered(rows, S) ==
    IF S = {} THEN {<<>>}
    ELSE UNION {{<<i>> \o rest : rest \in Ordered(rows, S \ {i})} :
                  i \in {i \in S : \A j \in S :
                            OrderByCreatedAtDesc(rows[i].createdAt, rows[j].createdAt)}}

\* take: limit, skip: skip.
Page(ordered, limit, skip) ==
    SubSeq(ordered, skip + 1,
           IF skip + limit < Len(ordered) THEN skip + limit ELSE Len(ordered))

\* TransactionDbAccess.findByWalletIds: the rows that have one of the wallets
\* as sender or receiver, newest first, without the first skip, at most
\* limit: the lists the query may return.
FindByWalletIds(rows, walletIds, limit, skip) ==
    LET matching == {i \in DOMAIN rows :
                        \/ rows[i].senderWalletId \in walletIds
                        \/ rows[i].receiverWalletId \in walletIds}
    IN  {Page([k \in DOMAIN ordered |-> TransactionRow(rows, ordered[k])], limit, skip) :
            ordered \in Ordered(rows, matching)}

\* What a read operation leaves alone besides the wallets table.
ReadFrame ==
    UNCHANGED <<users, ledger, pc, req, userWallet, treasuryWallet, snap, locked,
                result, calls, txLedger, attempts, clock, overlapped>>

\* The number of calls of read operations that are under way.
Reading == Cardinality({r \in Readers : rd[r].pc # "idle"})

\* One more call of a read operation can be made.
CanRead == view.n + Reading < MaxReads

\* The call is taken by a reader that is idle.
TakesCall(r) ==
    /\ CanRead
    /\ rd[r].pc = "idle"
    /\ r = CHOOSE x \in Readers : rd[x].pc = "idle"

\* The reader's call goes on to its next query.
Await(r, step) ==
    /\ rd' = [rd EXCEPT ![r].pc = step]
    /\ UNCHANGED view

\* The reader's call returns (status OK) or throws.
Return(r, status, value) ==
    /\ view' = Returned(rd[r].op, rd[r].args, status, value)
    /\ rd' = [rd EXCEPT ![r] = IdleReader]

\* WalletService.getBalance: await assetTypeDb.findByName(assetTypeName).
GetBalance(r, userId, assetTypeName) ==
    /\ TakesCall(r)
    /\ IF FindByName(assetTypeName) = NoRow
       THEN /\ view' = Returned("getBalance", <<userId, assetTypeName>>,
                                "AssetNotFound", <<>>)
            /\ UNCHANGED rd
       ELSE /\ rd' = [rd EXCEPT ![r] =
                        [pc |-> "findWallet", op |-> "getBalance",
                         args |-> <<userId, assetTypeName>>,
                         ids |-> {FindByName(assetTypeName)}]]
            /\ UNCHANGED view
    /\ UNCHANGED wallets
    /\ ReadFrame

\* The account and the asset type id the reader's call asks a wallet for.
ReadUserId(r) == rd[r].args[1]

ReadAssetTypeId(r) == CHOOSE a \in rd[r].ids : TRUE

\* WalletService.getBalance: await walletDb.findByUserAndAssetType(...).
FindByUserAndAssetType(r) ==
    /\ rd[r].pc = "findWallet"
    /\ LET found == WalletsOf(wallets, ReadUserId(r), ReadAssetTypeId(r))
       IN  IF found # {}
           THEN \E w \in found : Return(r, "OK", <<WalletRow(wallets, w)>>)
           ELSE Await(r, "select")
    /\ UNCHANGED wallets
    /\ ReadFrame

\* The SELECT of the upsert of WalletDbAccess.getOrCreate: the wallet of the
\* pair is returned (update: {}), or the upsert goes on to its INSERT.
Select(r, userId, assetTypeId, found, missing) ==
    LET rows == WalletsOf(wallets, userId, assetTypeId)
    IN  IF rows # {}
        THEN \E w \in rows :
                /\ wallets' = [wallets EXCEPT ![w] = UpsertUpdate(@)]
                /\ view' = Returned(found.op, found.args, "OK",
                                    <<WalletRow(wallets', w)>>)
                /\ rd' = [rd EXCEPT ![r] = IdleReader]
        ELSE /\ rd' = [rd EXCEPT ![r] = missing]
             /\ UNCHANGED <<wallets, view>>

\* WalletService.getOrCreateWallet: the SELECT of the upsert.
GetOrCreateWallet(r, userId, assetTypeId) ==
    /\ TakesCall(r)
    /\ LET call == [pc |-> "insert", op |-> "getOrCreateWallet",
                    args |-> <<userId, assetTypeId>>, ids |-> {assetTypeId}]
       IN  Select(r, userId, assetTypeId, call, call)
    /\ ReadFrame

\* WalletService.getBalance: the SELECT of the upsert of getOrCreate.
UpsertSelect(r) ==
    /\ rd[r].pc = "select"
    /\ Select(r, ReadUserId(r), ReadAssetTypeId(r), rd[r], [rd[r] EXCEPT !.pc = "insert"])
    /\ ReadFrame

\* The INSERT of the upsert of WalletDbAccess.getOrCreate: a wallet with
\* balance 0, unless a constraint of the wallets table rejects the row.
UpsertInsert(r) ==
    /\ rd[r].pc = "insert"
    /\ LET userId == ReadUserId(r)
           assetTypeId == ReadAssetTypeId(r)
       IN  IF userId \notin users \/ assetTypeId \notin AssetTypes
           THEN Return(r, "ForeignKeyViolation", <<>>) /\ UNCHANGED wallets
           ELSE IF UniqueViolation(wallets, userId, assetTypeId)
           THEN Return(r, "UniqueConstraintViolation", <<>>) /\ UNCHANGED wallets
           ELSE \E w \in WalletIds \ DOMAIN wallets :
                   /\ wallets' = Inserted(wallets, w, NewWallet(userId, assetTypeId))
                   /\ Return(r, "OK", <<WalletRow(wallets', w)>>)
    /\ ReadFrame

\* WalletService.getWalletById.
GetWalletById(walletId) ==
    /\ CanRead
    /\ view' = IF walletId \in DOMAIN wallets
               THEN Returned("getWalletById", <<walletId>>, "OK",
                             <<WalletRow(wallets, walletId)>>)
               ELSE Returned("getWalletById", <<walletId>>, "WalletNotFound", <<>>)
    /\ UNCHANGED <<wallets, rd>>
    /\ ReadFrame

\* WalletService.getUserWallets.
GetUserWallets(userId) ==
    /\ CanRead
    /\ \E order \in Orders(GetWalletIdsByUserId(wallets, userId)) :
          view' = Returned("getUserWallets", <<userId>>, "OK",
                           [i \in DOMAIN order |-> WalletRow(wallets, order[i])])
    /\ UNCHANGED <<wallets, rd>>
    /\ ReadFrame

\* TransactionService.getTransactionHistory:
\* await walletDb.getWalletIdsByUserId(userId).
GetTransactionHistory(r, userId, limit, skip) ==
    /\ TakesCall(r)
    /\ rd' = [rd EXCEPT ![r] =
                [pc |-> "rows", op |-> "getTransactionHistory",
                 args |-> <<userId, limit, skip>>,
                 ids |-> GetWalletIdsByUserId(wallets, userId)]]
    /\ UNCHANGED <<wallets, view>>
    /\ ReadFrame

\* TransactionService.getTransactionHistory:
\* await transactionDb.findByWalletIds(walletIds, limit, skip).
HistoryRows(r) ==
    /\ rd[r].pc = "rows"
    /\ \E value \in FindByWalletIds(ledger, rd[r].ids, rd[r].args[2], rd[r].args[3]) :
          Return(r, "OK", value)
    /\ UNCHANGED wallets
    /\ ReadFrame

\* WalletDbAccess.findManyByIds, called with a list of wallet ids.
LockMany(walletIds) ==
    /\ CanRead
    /\ LET fetched == FindManyByIds(wallets, walletIds)
       IN  view' = Returned("findManyByIds", walletIds, "OK",
                            [i \in DOMAIN fetched |-> WalletRow(wallets, fetched[i])])
    /\ UNCHANGED <<wallets, rd>>
    /\ ReadFrame

(***************************************************************************)
(* The services together: from the funded state, with the account carol    *)
(* that has no wallet yet, a request handler runs one topUp or spend for   *)
(* alice while two readers run read operations.                            *)
(***************************************************************************)
ServiceProcs == {"p1"}

ServiceArgs == Args({"topUp", "spend"}, {"alice"}, GoldOnly, {60}, {Undefined})

ReadUsers == {"alice", "carol"}

ServiceInit ==
    /\ users = FirstUseUsers
    /\ wallets = FundedWallets
    /\ ledger = FundedLedger
    /\ InitHandlers(ServiceProcs)

ServiceNext ==
    \/ \E p \in ServiceProcs :
          \/ \E args \in ServiceArgs : pc[p] = "idle" /\ Call(p, args)
          \/ Step(p)
    \/ \E r \in Readers :
          \/ \E userId \in ReadUsers, name \in AssetNames : GetBalance(r, userId, name)
          \/ FindByUserAndAssetType(r)
          \/ UpsertSelect(r)
          \/ UpsertInsert(r)
          \/ \E userId \in ReadUsers, assetTypeId \in GoldOnly :
                GetOrCreateWallet(r, userId, assetTypeId)
          \/ \E userId \in ReadUsers : GetTransactionHistory(r, userId, DefaultLimit, 0)
          \/ HistoryRows(r)
    \/ \E walletId \in ReadIds : GetWalletById(walletId)
    \/ \E userId \in ReadUsers : GetUserWallets(userId)
    \/ \E walletIds \in IdSeqs : LockMany(walletIds)

ServiceSpec == ServiceInit /\ [][ServiceNext]_vars

(***************************************************************************)
(* The history beside the engine: carol has a GOLD wallet, made by an      *)
(* earlier getBalance, and no DIAMOND wallet; two request handlers run one *)
(* topUp each for carol, in GOLD or in DIAMOND, while the history of carol *)
(* or of alice is read.                                                    *)
(***************************************************************************)
HistoryWallets == Inserted(FundedWallets, 10, NewWallet("carol", "GOLD"))

HistoryArgs == Args({"topUp"}, {"carol"}, GoldAndDiamond, {60}, {Undefined})

HistoryInit ==
    /\ users = FirstUseUsers
    /\ wallets = HistoryWallets
    /\ ledger = FundedLedger
    /\ InitHandlers(Procs)

HistoryNext ==
    \/ \E p \in Procs :
          \/ \E args \in HistoryArgs : pc[p] = "idle" /\ Call(p, args)
          \/ Step(p)
          \/ InsertWalletSecond(p)
    \/ \E r \in Readers :
          \/ \E userId \in ReadUsers, limit \in Limits, skip \in Skips :
                GetTransactionHistory(r, userId, limit, skip)
          \/ HistoryRows(r)

HistorySpec == HistoryInit /\ [][HistoryNext]_vars

(***************************************************************************)
(* The transaction helpers of WalletDbAccess that no service and no route  *)
(* calls: getOrCreateInTransaction and decrementBalanceWithCheck.  They    *)
(* run as their @example shows, inside a prisma.$transaction of the        *)
(* caller opened without options, that is at the database's default        *)
(* isolation level: each statement reads the rows committed when it runs,  *)
(* an UPDATE waits for the row's lock and then writes the row as last      *)
(* committed, and nothing written is visible to others before the COMMIT.  *)
(* The caller's walletId argument is held in userWallet, the rows the      *)
(* transaction read or inserted in snap.                                   *)
(***************************************************************************)
DbAccessOps == {"getOrCreateInTransaction", "decrementBalanceWithCheck"}

\* The wallet rows a caller's open transaction has inserted.
Pending(p) == {w \in DOMAIN snap[p] : w \notin DOMAIN wallets}

\* await prisma.$transaction(async (tx) => { await walletDb.<op>(tx, ...) }):
\* the caller opens its transaction.
DbAccessCall(p, args, walletId) ==
    /\ pc[p] \in {"idle", "done"}
    /\ args.op \in DbAccessOps
    /\ calls' = calls + 1
    /\ req' = [req EXCEPT ![p] = args]
    /\ pc' = [pc EXCEPT ![p] = args.op]
    /\ result' = [result EXCEPT ![p] = NoResult]
    /\ attempts' = [attempts EXCEPT ![p] = 1]
    /\ userWallet' = [userWallet EXCEPT ![p] =
                         IF args.op = "decrementBalanceWithCheck" THEN walletId ELSE 0]
    /\ UNCHANGED <<users, wallets, ledger, treasuryWallet, snap, locked,
                   txLedger, clock, view, overlapped, rd>>

\* The upsert of getOrCreateInTransaction hands the pair's row to the caller
\* as it is (update: {}).  Sent as one INSERT ... ON CONFLICT DO UPDATE it
\* takes the row's lock, waiting for it; sent as a SELECT it takes none.
ReturnsExisting(p, w) ==
    /\ \E takes \in BOOLEAN :
          IF takes
          THEN /\ \A q \in DOMAIN pc : q # p => w \notin LockedBy(q)
               /\ locked' = [locked EXCEPT ![p] =
                                IF w \in LockedBy(p) THEN @ ELSE Append(@, w)]
          ELSE UNCHANGED locked
    /\ userWallet' = [userWallet EXCEPT ![p] = w]
    /\ wallets' = [wallets EXCEPT ![w] = UpsertUpdate(@)]
    /\ pc' = [pc EXCEPT ![p] = "dbCommit"]
    /\ UNCHANGED <<ledger, treasuryWallet, snap, result, txLedger, clock, overlapped>>

\* WalletDbAccess.getOrCreateInTransaction: tx.wallet.upsert without include.
\* Prisma sends it either as one INSERT ... ON CONFLICT DO UPDATE or as a
\* SELECT followed by an INSERT; the source does not say which, so the
\* model allows what either does.  This is the read of the pair's row: the
\* row is returned, or there is none and the upsert goes on to insert one.
GetOrCreateInTransaction(p) ==
    LET found == WalletsOf(wallets, req[p].userId, req[p].assetTypeName)
    IN  /\ pc[p] = "getOrCreateInTransaction"
        /\ IF found # {}
           THEN \E w \in found : ReturnsExisting(p, w)
           ELSE Goto(p, "dbInsert")
        /\ Frame

\* The insert of getOrCreateInTransaction (create: balance 0).  It waits for
\* the end of any other open transaction that has inserted the pair.  When
\* the pair's row has been committed since the read, the unique index
\* rejects the INSERT of the SELECT-then-INSERT form, and the ON CONFLICT
\* form returns the committed row.
GetOrCreateInTransactionInsert(p) ==
    LET userId == req[p].userId
        assetTypeId == req[p].assetTypeName
        found == WalletsOf(wallets, userId, assetTypeId)
    IN  /\ pc[p] = "dbInsert"
        /\ \A q \in DOMAIN pc : \A w \in Pending(q) :
              ~(snap[q][w].userId = userId /\ snap[q][w].assetTypeId = assetTypeId)
        /\ IF userId \notin users \/ FindByName(assetTypeId) = NoRow
           THEN Fail(p, "ForeignKeyViolation")
           ELSE IF UniqueViolation(wallets, userId, assetTypeId)
           THEN \E rejected \in BOOLEAN :
                   IF rejected
                   THEN Fail(p, "UniqueConstraintViolation")
                   ELSE \E w \in found : ReturnsExisting(p, w)
           ELSE /\ \E w \in WalletIds \ (DOMAIN wallets
                                          \cup UNION {Pending(q) : q \in DOMAIN pc}) :
                      /\ snap' = [snap EXCEPT ![p] = w :> NewWallet(userId, assetTypeId)]
                      /\ userWallet' = [userWallet EXCEPT ![p] = w]
                /\ pc' = [pc EXCEPT ![p] = "dbCommit"]
                /\ UNCHANGED <<wallets, ledger, treasuryWallet, locked, result,
                               txLedger, clock, overlapped>>
        /\ Frame

\* WalletDbAccess.decrementBalanceWithCheck, up to its second await:
\* tx.wallet.findUnique and the two checks made on the row read.
DecrementBalanceWithCheck(p) ==
    LET walletId == userWallet[p]
    IN  /\ pc[p] = "decrementBalanceWithCheck"
        /\ IF walletId \notin DOMAIN wallets
           THEN Fail(p, "WalletNotFound")
           ELSE IF wallets[walletId].balance < req[p].amount
           THEN Fail(p, "InsufficientBalance")
           ELSE /\ snap' = [snap EXCEPT ![p] = walletId :> wallets[walletId]]
                /\ pc' = [pc EXCEPT ![p] = "dbUpdate"]
                /\ UNCHANGED <<wallets, ledger, userWallet, treasuryWallet, locked,
                               result, txLedger, clock, overlapped>>
        /\ Frame

\* The tx.wallet.update of decrementBalanceWithCheck ({ decrement: amount }):
\* it waits for the row's lock and takes it.
DecrementBalanceWithCheckUpdate(p) ==
    /\ pc[p] = "dbUpdate"
    /\ \A q \in DOMAIN pc : q # p => userWallet[p] \notin LockedBy(q)
    /\ locked' = [locked EXCEPT ![p] = Append(@, userWallet[p])]
    /\ pc' = [pc EXCEPT ![p] = "dbCommit"]
    /\ UNCHANGED <<wallets, ledger, userWallet, treasuryWallet, snap, result,
                   txLedger, clock, overlapped>>
    /\ Frame

\* The wallets table after the COMMIT of the caller's transaction: the row
\* inserted is there, the row decremented is the committed row less the amount.
DbAccessCommitted(p) ==
    [w \in DOMAIN wallets \cup Pending(p) |->
        IF w \in Pending(p) THEN snap[p][w]
        ELSE IF req[p].op = "decrementBalanceWithCheck" /\ w \in LockedBy(p)
        THEN [wallets[w] EXCEPT !.balance = @ - req[p].amount, !.ver = @ + 1]
        ELSE wallets[w]]

\* The COMMIT of the caller's prisma.$transaction.
DbAccessCommit(p) ==
    /\ pc[p] = "dbCommit"
    /\ wallets' = DbAccessCommitted(p)
    /\ result' = [result EXCEPT ![p] = [status |-> "OK", entry |-> 0, replayed |-> FALSE]]
    /\ pc' = [pc EXCEPT ![p] = "done"]
    /\ snap' = [snap EXCEPT ![p] = <<>>]
    /\ locked' = [locked EXCEPT ![p] = <<>>]
    /\ userWallet' = [userWallet EXCEPT ![p] = 0]
    /\ UNCHANGED <<ledger, treasuryWallet, txLedger, clock, overlapped>>
    /\ Frame

\* Calls of the two helpers on the funded database with the account carol:
\* a wallet of alice or of carol in GOLD, a decrement of 60 or of 200 on
\* alice's wallet (which holds 100) or on a wallet that does not exist.
DbAccessArgs ==
    Args({"getOrCreateInTransaction"}, {"alice", "carol"}, GoldOnly, {0}, {Undefined})
    \cup Args({"decrementBalanceWithCheck"}, {"none"}, {"none"}, {60, 200}, {Undefined})

DbAccessWalletIds == {1, 10}

DbAccessInit ==
    /\ users = FirstUseUsers
    /\ wallets = FundedWallets
    /\ ledger = FundedLedger
    /\ InitHandlers(Procs)

DbAccessNext ==
    \E p \in Procs :
        \/ \E args \in DbAccessArgs, walletId \in DbAccessWalletIds :
              calls < MaxCalls /\ DbAccessCall(p, args, walletId)
        \/ GetOrCreateInTransaction(p)
        \/ GetOrCreateInTransactionInsert(p)
        \/ DecrementBalanceWithCheck(p)
        \/ DecrementBalanceWithCheckUpdate(p)
        \/ DbAccessCommit(p)

DbAccessSpec == DbAccessInit /\ [][DbAccessNext]_vars

(***************************************************************************)
(* Properties.                                                             *)
(***************************************************************************)
Done(p) == pc[p] = "done"

\* Some committed ledger row carries the key.
KeyCarried(key) == \E i \in DOMAIN ledger : ledger[i].metadata = key

AliceWallet == CHOOSE w \in DOMAIN wallets :
                   wallets[w].userId = "alice" /\ wallets[w].assetTypeId = "GOLD"

\* The handler's transaction commits in this step.
Commits(p) == pc[p] = "commit" /\ pc'[p] = "done" /\ result'[p].status = "OK"

\* C1: every wallet's balance is >= 0 in every reachable state.
C1_BalanceNonNegative ==
    \A w \in DOMAIN wallets : wallets[w].balance >= 0

\* C2: at most one ledger entry carries any given idempotency key.
C2_ExactlyOnce ==
    \A key \in Keys :
        Truthy(key) => Cardinality(FindByIdempotencyKey(ledger, key)) <= 1

\* C3: a transfer that completes takes its amount from the sender's balance,
\* adds it to the receiver's balance and leaves the sum of the two unchanged.
C3_CompletedTransferMovesAmount ==
    [][\A p \in DOMAIN pc :
          Commits(p)
          => LET s == SenderWallet(p)
                 r == ReceiverWallet(p)
                 a == req[p].amount
             IN  /\ wallets'[s].balance = wallets[s].balance - a
                 /\ wallets'[r].balance = wallets[r].balance + a
                 /\ wallets'[s].balance + wallets'[r].balance
                      = wallets[s].balance + wallets[r].balance]_vars

\* A spend of amount a by alice.
SpendOf(p, a) ==
    req[p].op = "spend" /\ req[p].userId = "alice" /\ req[p].amount = a

\* Exactly the handlers p and q have made a call, both calls have returned.
OnlyCalls(p, q) ==
    /\ p # q /\ Done(p) /\ Done(q)
    /\ \A r \in DOMAIN pc \ {p, q} : pc[r] = "idle"

\* C4: of two concurrent spends of 60 against a wallet holding 100 exactly
\* one succeeds, the balance ends at 40, and the other fails with
\* InsufficientBalance or SerializationConflict.
C4_ExactlyOneSpendSucceeds ==
    \A p, q \in DOMAIN pc :
        (OnlyCalls(p, q) /\ SpendOf(p, 60) /\ SpendOf(q, 60))
        => /\ (result[p].status = "OK") # (result[q].status = "OK")
           /\ wallets[AliceWallet].balance = 40
           /\ {result[p].status, result[q].status} \in
                 { {"OK", "InsufficientBalance"}, {"OK", "SerializationConflict"} }

C4_Witness ==
    \E p, q \in DOMAIN pc :
        /\ OnlyCalls(p, q) /\ SpendOf(p, 60) /\ SpendOf(q, 60)
        /\ result[p].status = "OK"
        /\ result[q].status = "SerializationConflict"

RECURSIVE SumAmounts(_)
SumAmounts(ps) ==
    IF ps = {} THEN 0
    ELSE LET p == CHOOSE x \in ps : TRUE
         IN  req[p].amount + SumAmounts(ps \ {p})

\* Every handler has made its spend for alice and returned; the amounts sum
\* to more than the 100 the wallet held.
AllSpendsDone ==
    /\ \A p \in DOMAIN pc : Done(p) /\ req[p].op = "spend" /\ req[p].userId = "alice"
    /\ SumAmounts(DOMAIN pc) > 100

Winners == {p \in DOMAIN pc : result[p].status = "OK"}

InitialBalance(w) ==
    IF wallets[w].userId = TreasuryUserId THEN TreasuryInitialBalance ELSE 0

\* The balance of wallet w after the first n ledger entries, applied one at a time.
RECURSIVE SerialBalance(_, _)
SerialBalance(w, n) ==
    IF n = 0 THEN InitialBalance(w)
    ELSE SerialBalance(w, n - 1)
         + (IF ledger[n].receiverWalletId = w THEN ledger[n].amount ELSE 0)
         - (IF ledger[n].senderWalletId = w THEN ledger[n].amount ELSE 0)

\* C6: the committed transfers form a serial history: the balances are those
\* of running the ledger's transfers one at a time in commit order, and in
\* that serial run every transfer passes its balance check.
C6_SerialHistory ==
    /\ \A w \in DOMAIN wallets : wallets[w].balance = SerialBalance(w, Len(ledger))
    /\ \A n \in DOMAIN ledger :
          ledger[n].amount <= SerialBalance(ledger[n].senderWalletId, n - 1)

C6_Witness ==
    /\ Len(ledger) >= 3
    /\ \E p \in DOMAIN pc : result[p].status = "SerializationConflict"
    /\ \E m, n \in DOMAIN ledger :
          m # n /\ m > 1 /\ n > 1 /\ ledger[m].senderWalletId = ledger[n].senderWalletId

\* C7: no two transfers ever hold one wallet each while waiting for the other's.
C7_NoDeadlock ==
    \A p, q \in DOMAIN pc : ~(WaitsFor(p, q) /\ WaitsFor(q, p))

\* C8: every transfer takes hold of its two wallet rows in ascending id order.
C8_AscendingLockOrder ==
    \A p \in DOMAIN pc :
        Len(locked[p]) = 2 => locked[p][1] < locked[p][2]

\* C9: a topUp whose idempotency key a ledger entry already carries is
\* rejected, and neither the ledger nor any wallet changes.
C9_TopUpDuplicateRejected ==
    [][\A p \in DOMAIN pc :
          (/\ pc[p] = "lookup" /\ pc'[p] # "lookup"
           /\ req[p].op = "topUp"
           /\ Truthy(req[p].idempotencyKey)
           /\ KeyCarried(req[p].idempotencyKey))
          => /\ pc'[p] = "done"
             /\ result'[p].status = "DuplicateRequest"
             /\ ledger' = ledger
             /\ wallets' = wallets]_vars

C9_Witness ==
    \E p \in DOMAIN pc :
        /\ Done(p) /\ req[p].op = "topUp"
        /\ result[p].status = "DuplicateRequest"
        /\ KeyCarried(req[p].idempotencyKey)

\* C10: a spend or issueBonus whose idempotency key a ledger entry already
\* carries returns an entry carrying the key, and neither the ledger nor any
\* wallet changes.
C10_ReplayReturnsPrior ==
    [][\A p \in DOMAIN pc :
          (/\ pc[p] = "lookup" /\ pc'[p] # "lookup"
           /\ req[p].op \in {"spend", "issueBonus"}
           /\ Truthy(req[p].idempotencyKey)
           /\ KeyCarried(req[p].idempotencyKey))
          => /\ pc'[p] = "done"
             /\ result'[p].status = "OK"
             /\ result'[p].entry \in DOMAIN ledger
             /\ ledger[result'[p].entry].metadata = req[p].idempotencyKey
             /\ ledger' = ledger
             /\ wallets' = wallets]_vars

C10_Witness ==
    \E p \in DOMAIN pc :
        /\ Done(p) /\ req[p].op \in {"spend", "issueBonus"}
        /\ result[p].status = "OK" /\ result[p].replayed
        /\ ledger[result[p].entry].metadata = req[p].idempotencyKey

\* The handler's call has ended in an error thrown inside the atomic unit.
FailsInTx(p) ==
    /\ pc[p] \in {"begin", "fetch", "create", "debit", "credit", "finalize", "commit"}
    /\ pc'[p] = "done"
    /\ result'[p].status # "OK"

\* C11: when a step inside the atomic unit fails, the wallets and the ledger
\* are afterwards what they were before the attempt: no balance change and no
\* ledger row of the attempt is visible.
C11_FailedUnitLeavesNothing ==
    [][\A p \in DOMAIN pc :
          FailsInTx(p) => (wallets' = wallets /\ ledger' = ledger)]_vars

C11_Witness ==
    \E p, q \in DOMAIN pc :
        /\ Done(p) /\ result[p].status = "SerializationConflict"
        /\ Done(q) /\ result[q].status = "InsufficientBalance"
        /\ Len(ledger) = Len(FundedLedger) + 1

\* The wallet the operation debits: the user's in spend, the Treasury's in
\* topUp and issueBonus.
DebitedWallet(p) == IF req[p].op = "spend" THEN userWallet[p] ELSE treasuryWallet[p]

\* C12: an operation whose amount exceeds the balance of the wallet it debits
\* fails with InsufficientBalance, changes no balance and persists no ledger
\* entry.
C12_InsufficientBalanceRejected ==
    [][\A p \in DOMAIN pc :
          (/\ pc[p] = "fetch" /\ pc'[p] # "fetch"
           /\ wallets[DebitedWallet(p)].balance < req[p].amount)
          => /\ pc'[p] = "done"
             /\ result'[p].status = "InsufficientBalance"
             /\ wallets' = wallets
             /\ ledger' = ledger]_vars

C12_Witness ==
    \E p, q \in DOMAIN pc :
        /\ Done(p) /\ req[p].op = "spend" /\ result[p].status = "InsufficientBalance"
        /\ Done(q) /\ req[q].op = "topUp" /\ result[q].status = "InsufficientBalance"
        /\ req[q].amount > TreasuryInitialBalance
        /\ ledger = <<>>
        /\ \A w \in DOMAIN wallets : wallets[w].balance = InitialBalance(w)

\* C13: every ledger entry visible outside an atomic unit, in the committed
\* ledger and in every value an operation returned, has status COMPLETED.
C13_VisibleEntriesCompleted ==
    /\ \A i \in DOMAIN ledger : ledger[i].status = "COMPLETED"
    /\ \A p \in DOMAIN pc :
          (Done(p) /\ result[p].status = "OK")
          => /\ result[p].entry \in DOMAIN ledger
             /\ ledger[result[p].entry].status = "COMPLETED"

C13_Witness ==
    \E p, q \in DOMAIN pc :
        /\ Done(p) /\ result[p].status = "OK" /\ ~result[p].replayed
        /\ ledger[result[p].entry].status = "COMPLETED"
        /\ txLedger[q] # <<>> /\ txLedger[q][1].status = "PENDING"

\* The sum of the amounts of the ledger entries whose positions are in S.
RECURSIVE SumEntries(_)
SumEntries(S) ==
    IF S = {} THEN 0
    ELSE LET i == CHOOSE x \in S : TRUE
         IN  ledger[i].amount + SumEntries(S \ {i})

CompletedTo(w) ==
    {i \in DOMAIN ledger : ledger[i].status = "COMPLETED" /\ ledger[i].receiverWalletId = w}

CompletedFrom(w) ==
    {i \in DOMAIN ledger : ledger[i].status = "COMPLETED" /\ ledger[i].senderWalletId = w}

\* C14: in every committed state each wallet's balance is its initial balance
\* plus the amounts of the COMPLETED entries it received minus the amounts of
\* the COMPLETED entries it sent.
C14_LedgerAgreesWithBalances ==
    \A w \in DOMAIN wallets :
        wallets[w].balance
          = InitialBalance(w) + SumEntries(CompletedTo(w)) - SumEntries(CompletedFrom(w))

C14_Witness ==
    /\ CompletedTo(AliceWallet) # {}
    /\ CompletedFrom(AliceWallet) # {}
    /\ \A p \in DOMAIN pc : Done(p) /\ result[p].status = "OK"

\* C15: no two wallet rows share the same (account, asset type) pair.
C15_OneWalletPerPair ==
    \A v, w \in DOMAIN wallets :
        (wallets[v].userId = wallets[w].userId
         /\ wallets[v].assetTypeId = wallets[w].assetTypeId) => v = w

\* Two callers raced to create carol's first wallet: one row exists, the
\* insert of the other caller was rejected.
C15_Witness ==
    /\ Cardinality(WalletsOf(wallets, "carol", "GOLD")) = 1
    /\ \E p \in DOMAIN pc :
          Done(p) /\ req[p].userId = "carol"
          /\ result[p].status = "UniqueConstraintViolation"

\* C16: a call with amount <= 0 is rejected with InvalidAmount before any
\* storage access, and every ledger entry has amount > 0.
C16_InvalidAmountRejected ==
    /\ \A p \in DOMAIN pc :
          (req[p].amount <= 0 /\ pc[p] # "idle")
          => (Done(p) /\ result[p].status = "InvalidAmount")
    /\ \A i \in DOMAIN ledger : ledger[i].amount > 0

\* Every call made so far has returned, and each of them ended in an error.
AllCallsFailed ==
    /\ \E p \in DOMAIN pc : Done(p)
    /\ \A p \in DOMAIN pc :
          pc[p] \in {"idle", "done"} /\ (Done(p) => result[p].status # "OK")

\* C17: calls that end in an error leave no persisted side effect: the wallet
\* rows, their balances and the ledger are what they were before the calls.
C17_ErrorLeavesNoSideEffect ==
    AllCallsFailed => (wallets = SeedWallets /\ ledger = <<>>)

\* The handler's call ends in a serialization error in this step.
AbortedByConflict(p) ==
    pc[p] # "done" /\ pc'[p] # pc[p] /\ result'[p].status = "SerializationConflict"

\* The caller's retry of the handler's call commits in this step.
RetryCommits(p) ==
    attempts[p] > 1 /\ Commits(p)

\* C18: a call runs its atomic unit at most once; a call aborted with
\* SerializationConflict is over and leaves wallets and ledger as they were;
\* the caller's retry, when it commits, adds the one ledger entry of the call
\* and moves the amount once.
C18_AbortThenRetryAppliesOnce ==
    [][\A p \in DOMAIN pc :
          /\ (pc'[p] = "begin" /\ pc[p] # "begin") => pc[p] \in {"getWallet2", "insert2"}
          /\ AbortedByConflict(p)
               => (pc'[p] = "done" /\ wallets' = wallets /\ ledger' = ledger)
          /\ RetryCommits(p)
               => /\ Len(ledger') = Len(ledger) + 1
                  /\ ledger'[Len(ledger')].amount = req[p].amount
                  /\ ledger'[Len(ledger')].metadata = Metadata(req[p].idempotencyKey)
                  /\ \A w \in DOMAIN wallets :
                        wallets'[w].balance
                          = wallets[w].balance
                            + (IF w = ledger'[Len(ledger')].receiverWalletId
                               THEN req[p].amount ELSE 0)
                            - (IF w = ledger'[Len(ledger')].senderWalletId
                               THEN req[p].amount ELSE 0)]_vars

C18_Witness ==
    \E p \in DOMAIN pc :
        /\ attempts[p] = 2 /\ Done(p)
        /\ result[p].status = "OK" /\ ~result[p].replayed
        /\ Truthy(req[p].idempotencyKey)
        /\ Cardinality(FindByIdempotencyKey(ledger, req[p].idempotencyKey)) = 1
        /\ Len(ledger) = Len(FundedLedger) + 2

\* The handler's transfer takes the step that checks, or the step that
\* decrements, while the debited wallet holds less than the amount.
DebitBelowBalance(p) ==
    /\ pc[p] \in {"fetch", "debit"} /\ pc'[p] # pc[p]
    /\ wallets[DebitedWallet(p)].balance < req[p].amount

\* C19 as stated: a debit fails with InsufficientBalance whenever the
\* wallet's balance immediately before it is less than the amount.
C19_DebitFailsInsufficient ==
    [][\A p \in DOMAIN pc :
          DebitBelowBalance(p) => result'[p].status = "InsufficientBalance"]_vars

\* C19 as amended: a debit is never applied to a balance below the amount.
\* When the balance is below the amount the transfer fails, with
\* InsufficientBalance when its check read that balance and with
\* SerializationConflict when the balance changed after its check; a
\* transfer that commits decrements the very balance its check read (and,
\* when the debited wallet is also the one credited, adds the amount back).
C19_DebitNeverBelowBalance ==
    [][\A p \in DOMAIN pc :
          /\ DebitBelowBalance(p)
               => /\ pc'[p] = "done"
                  /\ result'[p].status
                       = (IF pc[p] = "fetch" THEN "InsufficientBalance"
                          ELSE "SerializationConflict")
                  /\ wallets' = wallets
          /\ Commits(p)
               => /\ wallets[DebitedWallet(p)].balance >= req[p].amount
                  /\ wallets[DebitedWallet(p)].balance = snap[p][DebitedWallet(p)].balance
                  /\ wallets'[DebitedWallet(p)].balance
                       = wallets[DebitedWallet(p)].balance - req[p].amount
                         + (IF userWallet[p] = treasuryWallet[p]
                            THEN req[p].amount ELSE 0)]_vars

C19_Witness ==
    \E p, q, r \in DOMAIN pc :
        /\ SpendOf(p, 60) /\ SpendOf(q, 60) /\ SpendOf(r, 60)
        /\ Done(p) /\ result[p].status = "OK"
        /\ Done(q) /\ result[q].status = "SerializationConflict"
        /\ Done(r) /\ result[r].status = "InsufficientBalance"
        /\ wallets[AliceWallet].balance = 40

TreasuryGoldWallet == CHOOSE w \in DOMAIN wallets :
                          wallets[w].userId = TreasuryUserId /\ wallets[w].assetTypeId = "GOLD"

\* The one call made so far is topUp(alice, GOLD, 100), and it has returned.
OnlyTopUp100(p) ==
    /\ calls = 1 /\ Done(p)
    /\ req[p].op = "topUp" /\ req[p].userId = "alice"
    /\ req[p].assetTypeName = "GOLD" /\ req[p].amount = 100

\* C20: from a Treasury GOLD wallet of 1,000,000 and a user GOLD wallet of 0,
\* topUp(user, GOLD, 100) ends with the user at 100, the Treasury at 999,900
\* and exactly one ledger entry, COMPLETED and of kind DEPOSIT.
C20_TopUpScenario ==
    \A p \in DOMAIN pc :
        OnlyTopUp100(p)
        => /\ result[p].status = "OK"
           /\ wallets[AliceWallet].balance = 100
           /\ wallets[TreasuryGoldWallet].balance = 999900
           /\ Len(ledger) = 1
           /\ ledger[1].status = "COMPLETED"
           /\ ledger[1].type = "DEPOSIT"
           /\ ledger[1].amount = 100
           /\ ledger[1].senderWalletId = TreasuryGoldWallet
           /\ ledger[1].receiverWalletId = AliceWallet

C20_Witness ==
    \E p \in DOMAIN pc :
        /\ OnlyTopUp100(p)
        /\ result[p].status = "OK" /\ result[p].entry = 1
        /\ wallets[AliceWallet].balance = 100
        /\ ledger[1].type = "DEPOSIT"

\* The wallet of the account for the asset named in the handler's call.
WalletFor(userId, p) ==
    CHOOSE w \in DOMAIN wallets :
        wallets[w].userId = userId /\ wallets[w].assetTypeId = req[p].assetTypeName

\* The entry the handler's call created and returned.
Created(p) == ledger[result[p].entry]

\* C21: an entry created by topUp or issueBonus has the Treasury's wallet as
\* sender, the user's wallet as receiver and kind DEPOSIT; an entry created
\* by spend has the user's wallet as sender, the Treasury's as receiver and
\* kind WITHDRAWAL; its amount is the requested amount and the call returns
\* it COMPLETED.
C21_RolesAndKind ==
    \A p \in DOMAIN pc :
        (Done(p) /\ result[p].status = "OK" /\ ~result[p].replayed)
        => /\ result[p].entry \in DOMAIN ledger
           /\ Created(p).amount = req[p].amount
           /\ Created(p).status = "COMPLETED"
           /\ IF req[p].op = "spend"
              THEN /\ Created(p).senderWalletId = WalletFor(req[p].userId, p)
                   /\ Created(p).receiverWalletId = WalletFor(TreasuryUserId, p)
                   /\ Created(p).type = "WITHDRAWAL"
              ELSE /\ Created(p).senderWalletId = WalletFor(TreasuryUserId, p)
                   /\ Created(p).receiverWalletId = WalletFor(req[p].userId, p)
                   /\ Created(p).type = "DEPOSIT"

C21_Witness ==
    \E p, q \in DOMAIN pc :
        /\ Done(p) /\ req[p].op = "spend" /\ req[p].userId = "alice"
        /\ result[p].status = "OK" /\ ~result[p].replayed
        /\ Created(p).type = "WITHDRAWAL"
        /\ Done(q) /\ req[q].op = "issueBonus" /\ req[q].userId = "alice"
        /\ result[q].status = "OK" /\ ~result[q].replayed
        /\ Created(q).type = "DEPOSIT"

\* C22: when no Treasury account exists, every call for a known asset type
\* fails with TreasuryNotConfigured, and no call creates a wallet, changes a
\* balance or creates a ledger entry.
C22_NoTreasuryFails ==
    TreasuryUserId \notin users
    => /\ wallets = UserWallets
       /\ ledger = <<>>
       /\ \A p \in DOMAIN pc :
             /\ pc[p] \in {"idle", "lookup", "asset", "treasury", "done"}
             /\ (Done(p) /\ req[p].assetTypeName \in AssetTypes)
                  => result[p].status = "TreasuryNotConfigured"

C22_Witness ==
    /\ TreasuryUserId \notin users
    /\ \E p, q \in DOMAIN pc :
          /\ Done(p) /\ req[p].op = "topUp" /\ result[p].status = "TreasuryNotConfigured"
          /\ Done(q) /\ req[q].op = "spend" /\ result[q].status = "TreasuryNotConfigured"

\* A read operation of the given kind returns in this step.
Reads(op) == view'.n # view.n /\ view'.op = op

\* C23: getOrCreateWallet and getBalance, asked for the pair of an existing
\* account and asset type, return the pair's wallet with its balance: the
\* wallet the pair has, and then no wallet row changes, or when it has none
\* a new wallet with balance 0, the only row added.
C23_LazyWallet ==
    [][(/\ Reads("getOrCreateWallet") \/ Reads("getBalance")
        /\ view'.args[1] \in users
        /\ view'.args[2] \in AssetTypes)
       => /\ view'.status = "OK"
          /\ Len(view'.value) = 1
          /\ LET row == view'.value[1]
             IN  /\ row.id \in WalletsOf(wallets', view'.args[1], view'.args[2])
                 /\ row.balance = wallets'[row.id].balance
                 /\ IF row.id \in DOMAIN wallets
                    THEN wallets' = wallets
                    ELSE /\ row.balance = 0
                         /\ DOMAIN wallets' = DOMAIN wallets \cup {row.id}
                         /\ \A w \in DOMAIN wallets : wallets'[w] = wallets[w]]_vars

\* C24: a committed ledger entry is never changed and never removed.
C24_LedgerWriteOnce ==
    [][\A i \in DOMAIN ledger :
          i \in DOMAIN ledger' /\ ledger'[i] = ledger[i]]_vars

\* Two entries are committed, the first of them before the second was
\* created, and the first is still what a call returned.
C24_Witness ==
    /\ Len(ledger) = 2
    /\ ledger[1].createdAt < ledger[2].createdAt
    /\ ledger[1].metadata # NoMetadata
    /\ \E p \in DOMAIN pc : Done(p) /\ result[p].status = "OK" /\ result[p].entry = 1

\* Some existing wallet's balance changes in this step.
BalanceChanges ==
    \E w \in DOMAIN wallets :
        w \notin DOMAIN wallets' \/ wallets'[w].balance # wallets[w].balance

\* C25: every step of the read operations (getBalance, getWalletById,
\* getUserWallets, getOrCreateWallet, getTransactionHistory) leaves every
\* existing wallet and the ledger unchanged; a balance changes only in the commit of the atomic
\* unit of a topUp, issueBonus or spend.
C25_OnlyTransfersChangeBalances ==
    [][/\ (view'.n # view.n \/ \E r \in Readers : rd'[r].pc # rd[r].pc)
          => (ledger' = ledger /\ \A w \in DOMAIN wallets :
                                     w \in DOMAIN wallets' /\ wallets'[w] = wallets[w])
       /\ BalanceChanges => \E p \in DOMAIN pc : Commits(p)]_vars

C25_Witness ==
    /\ view.n = 2
    /\ view.op = "getOrCreateWallet" /\ view.args[1] = "alice"
    /\ view.value[1].balance = 160
    /\ wallets[AliceWallet].balance = 160
    /\ Len(ledger) = Len(FundedLedger) + 1

\* C26: the history of an account is a page (without the first offset, cut
\* to limit) of the ledger entries that have one of the account's wallets as
\* sender or receiver, newest first, as they were committed at some moment
\* up to the return of the call; it is empty for an account that has no
\* wallet.
C26_History ==
    [][Reads("getTransactionHistory")
       => LET userId == view'.args[1]
              limit == view'.args[2]
              skip == view'.args[3]
              walletIds == GetWalletIdsByUserId(wallets, userId)
          IN  /\ \E n \in 0..Len(ledger) :
                    view'.value \in FindByWalletIds(SubSeq(ledger, 1, n), walletIds,
                                                    limit, skip)
              /\ walletIds = {} => view'.value = <<>>]_vars

(***************************************************************************)
(* Order of the checks: a database without the Treasury user (and then     *)
(* without a ledger row), or the funded one, whose topUp of 100 was made   *)
(* without a key or with the key "k1".                                     *)
(***************************************************************************)
KeyedLedger ==
    << [senderWalletId |-> 2, receiverWalletId |-> 1, amount |-> 100,
        type |-> "DEPOSIT", status |-> "COMPLETED", metadata |-> "k1",
        createdAt |-> 0] >>

OrderInit ==
    /\ \E configured \in BOOLEAN :
          /\ users = IF configured THEN SeedUsers ELSE SeedUsers \ {TreasuryUserId}
          /\ wallets = IF configured THEN FundedWallets ELSE UserWallets
          /\ ledger \in IF configured THEN {FundedLedger, KeyedLedger} ELSE {<<>>}
    /\ InitHandlers(Procs)

OrderNext ==
    \E p \in Procs :
        \/ \E args \in ConfigArgs : calls < MaxCalls /\ Call(p, args)
        \/ Lookup(p)
        \/ Step(p)
        \/ DeadlockAbort(p)

OrderSpec == OrderInit /\ [][OrderNext]_vars

\* The call of handler p returns in this step.
Returns(p) == pc[p] # "done" /\ pc'[p] = "done"

\* The handler's call is made in this step.
Called(p) == pc[p] \in {"idle", "done"} /\ pc'[p] \notin {"idle", "done"}

\* C27: the idempotency lookup comes first, for a call that carries a key (a
\* hit ends the call by the operation's policy whatever the asset name, known
\* or unknown), then an unknown asset gives
\* AssetNotFound, then a missing Treasury gives TreasuryNotConfigured, then
\* the wallets are obtained, and InsufficientBalance comes only from the
\* atomic unit's balance check, after both wallets have been obtained.
C27_OrderOfChecks ==
    [][\A p \in DOMAIN pc :
          /\ Called(p)
             => pc'[p] = IF req'[p].idempotencyKey \in {Undefined, ""}
                         THEN "asset" ELSE "lookup"
          /\ (pc[p] = "lookup" /\ pc'[p] # "lookup")
             => LET hit == KeyCarried(req[p].idempotencyKey)
                IN  /\ (hit /\ req[p].op = "topUp")
                       => Returns(p) /\ result'[p].status = "DuplicateRequest"
                    /\ (hit /\ req[p].op # "topUp")
                       => Returns(p) /\ result'[p].status = "OK" /\ result'[p].replayed
                    /\ ~hit => pc'[p] = "asset"
          /\ (pc[p] = "asset" /\ pc'[p] # "asset")
             => IF req[p].assetTypeName \in AssetTypes
                THEN pc'[p] = "treasury"
                ELSE Returns(p) /\ result'[p].status = "AssetNotFound"
          /\ (pc[p] = "treasury" /\ pc'[p] # "treasury")
             => IF TreasuryUserId \in users
                THEN pc'[p] = "getWallet1"
                ELSE Returns(p) /\ result'[p].status = "TreasuryNotConfigured"
          /\ (pc[p] # "begin" /\ pc'[p] = "begin")
             => /\ pc[p] \in {"getWallet2", "insert2"}
                /\ userWallet'[p] \in DOMAIN wallets'
                /\ treasuryWallet'[p] \in DOMAIN wallets'
          /\ (Returns(p) /\ result'[p].status = "InsufficientBalance")
             => pc[p] = "fetch"]_vars

\* A keyed call that names an unknown asset has replayed the entry that
\* carries its key.
C27_Witness ==
    \E p \in DOMAIN pc :
        /\ Done(p)
        /\ KeyCarried(req[p].idempotencyKey)
        /\ req[p].assetTypeName \notin AssetTypes
        /\ result[p].status = "OK"
        /\ result[p].replayed

\* C28: the balance check admits equality. A transfer whose amount equals the
\* balance of the wallet it debits passes the check, and when it commits that
\* wallet is left with balance 0; InsufficientBalance is the outcome only
\* when the balance is below the amount.
C28_BalanceCheckAdmitsEquality ==
    [][\A p \in DOMAIN pc :
          /\ (/\ pc[p] = "fetch" /\ pc'[p] # "fetch"
              /\ wallets[DebitedWallet(p)].balance = req[p].amount)
             => pc'[p] = "create"
          /\ (Returns(p) /\ result'[p].status = "InsufficientBalance")
             => wallets[DebitedWallet(p)].balance < req[p].amount
          /\ (Commits(p) /\ snap[p][DebitedWallet(p)].balance = req[p].amount)
             => wallets'[DebitedWallet(p)].balance = 0]_vars

\* alice spent exactly the 100 she held: the spend is in the ledger and her
\* wallet is at 0.
C28_Witness ==
    \E p \in DOMAIN pc :
        /\ Done(p) /\ req[p].op = "spend" /\ req[p].amount = 100
        /\ result[p].status = "OK" /\ ~result[p].replayed
        /\ ledger[result[p].entry].senderWalletId = AliceWallet
        /\ ledger = Append(FundedLedger, ledger[result[p].entry])
        /\ wallets[AliceWallet].balance = 0

\* C29: findManyByIds returns the existing wallets among the ids it is given,
\* each once, ascending by id, whatever the order of the ids (no id: no
\* wallet); and inside the atomic unit both wallets are fetched through it,
\* as they are committed, before the ledger row is created and before any
\* balance is changed.
C29_FetchSortedBeforeWrite ==
    [][/\ Reads("findManyByIds")
          => LET walletIds == view'.args
                 value == view'.value
             IN  /\ {value[i].id : i \in DOMAIN value} = Range(walletIds) \cap DOMAIN wallets
                 /\ \A i, j \in DOMAIN value : i < j => value[i].id < value[j].id
                 /\ \A i \in DOMAIN value : value[i] = WalletRow(wallets, value[i].id)
                 /\ walletIds = <<>> => value = <<>>
       /\ \A p \in DOMAIN pc :
             /\ (pc[p] = "fetch" /\ pc'[p] = "create")
                => /\ snap'[p] = [w \in {userWallet[p], treasuryWallet[p]} |-> wallets[w]]
                   /\ txLedger'[p] = <<>>
                   /\ locked'[p] = <<>>
             /\ (txLedger[p] = <<>> /\ txLedger'[p] # <<>>)
                => /\ pc[p] = "create"
                   /\ locked[p] = <<>>
                   /\ wallets' = wallets
             /\ (locked'[p] # <<>> \/ txLedger'[p] # <<>>)
                => DOMAIN snap'[p] = {userWallet'[p], treasuryWallet'[p]}]_vars

\* Asked for the Treasury's wallet and then alice's while a transfer is under way, the
\* read returned alice's wallet and then the Treasury's, once each.
C29_Witness ==
    /\ view.op = "findManyByIds"
    /\ view.args = <<2, 1>>
    /\ Len(view.value) = 2
    /\ view.value[1].id = 1
    /\ view.value[2].id = 2
    /\ \E p \in DOMAIN pc : txLedger[p] # <<>> /\ locked[p] # <<>>

(***************************************************************************)
(* Fair scheduling: a request handler that can take a step eventually      *)
(* takes one, and the database's deadlock detector eventually runs.  From  *)
(* the funded state three request handlers make one call each, a topUp or  *)
(* a spend of 60 for alice, so that a call can wait behind another in a    *)
(* row's queue.                                                            *)
(***************************************************************************)
FairArgs == Args({"topUp", "spend"}, {"alice"}, GoldOnly, {60}, {Undefined})

FairInit ==
    /\ users = SeedUsers
    /\ wallets = FundedWallets
    /\ ledger = FundedLedger
    /\ InitHandlers(ScenarioProcs)

FairNext ==
    \E p \in ScenarioProcs :
        \/ \E args \in FairArgs : pc[p] = "idle" /\ Call(p, args)
        \/ Step(p)
        \/ DeadlockAbort(p)

FairSpec ==
    /\ FairInit
    /\ [][FairNext]_vars
    /\ \A p \in ScenarioProcs : WF_vars(Step(p)) /\ WF_vars(DeadlockAbort(p))

\* The handler's call has returned a COMPLETED entry or a failure.
Returned30(p) ==
    /\ Done(p)
    /\ result[p].status # "NONE"
    /\ result[p].status = "OK"
       => /\ result[p].entry \in DOMAIN ledger
          /\ ledger[result[p].entry].status = "COMPLETED"

\* C30: under fair scheduling every started call eventually returns, with a
\* COMPLETED entry or with a failure; a started call that cannot take its
\* next step is waiting for a row lock another call's atomic unit holds.
C30_EveryCallReturns ==
    /\ [](\A p \in ScenarioProcs :
             (pc[p] \notin {"idle", "done"} /\ ~ENABLED Step(p))
             => \E q \in ScenarioProcs : WaitsFor(p, q))
    /\ \A p \in ScenarioProcs : (pc[p] \notin {"idle", "done"}) ~> Returned30(p)

\* Three calls ran at the same time and all have returned: a topUp with a
\* serialization failure and a spend with its entry among them.
C30_Witness ==
    /\ \A r \in ScenarioProcs : Returned30(r)
    /\ \E p, q \in ScenarioProcs :
          /\ req[p].op = "topUp" /\ result[p].status = "SerializationConflict"
          /\ req[q].op = "spend" /\ result[q].status = "OK"

(***************************************************************************)
(* Two asset types: the funded state and the account carol, that has no    *)
(* wallet yet; her first call for an asset type creates her wallet of it.  *)
(* Calls are made for alice, for carol and for the Treasury's own id, in   *)
(* GOLD and in DIAMOND.                                                    *)
(***************************************************************************)
AssetsArgs ==
    Args({"topUp", "spend"}, {"alice", "carol", TreasuryUserId}, GoldAndDiamond,
         {60}, {Undefined})

AssetsInit ==
    /\ users = FirstUseUsers
    /\ wallets = FundedWallets
    /\ ledger = FundedLedger
    /\ InitHandlers(Procs)

AssetsNext ==
    \E p \in Procs :
        \/ \E args \in AssetsArgs : calls < MaxCalls /\ Call(p, args)
        \/ Step(p)
        \/ InsertWalletFirst(p)
        \/ InsertWalletSecond(p)
        \/ DeadlockAbort(p)

AssetsSpec == AssetsInit /\ [][AssetsNext]_vars

\* The sum of the balances of the wallets in S.
RECURSIVE SumBalances(_)
SumBalances(S) ==
    IF S = {} THEN 0
    ELSE LET w == CHOOSE x \in S : TRUE
         IN  wallets[w].balance + SumBalances(S \ {w})

WalletsOfAsset(a) == {w \in DOMAIN wallets : wallets[w].assetTypeId = a}

\* C31: in every committed state the balances of the wallets of an asset type
\* sum to the same total, the seeded supply of the asset type: a wallet is
\* created with balance 0 and a transfer's debit and credit become visible
\* together.
C31_Conservation ==
    \A a \in AssetTypes : SumBalances(WalletsOfAsset(a)) = TreasuryInitialBalance

\* carol's DIAMOND wallet was created and funded, while a GOLD transfer is
\* between its two updates.
C31_Witness ==
    /\ \E w \in WalletsOfAsset("DIAMOND") :
          wallets[w].userId = "carol" /\ wallets[w].balance = 60
    /\ \E p \in DOMAIN pc : pc[p] = "credit" /\ req[p].assetTypeName = "GOLD"

\* C32: every ledger entry, committed or written inside an atomic unit, has a
\* sender wallet that differs from its receiver wallet, whatever account id
\* is passed to the operation, the Treasury's own id included.
C32_DistinctWallets ==
    /\ \A i \in DOMAIN ledger : ledger[i].senderWalletId # ledger[i].receiverWalletId
    /\ \A p \in DOMAIN pc : \A i \in DOMAIN txLedger[p] :
          txLedger[p][i].senderWalletId # txLedger[p][i].receiverWalletId

\* C33: no call ever fails with 'Wallet not found'. No step removes a wallet
\* row, so when the atomic unit begins both wallets that get-or-create
\* returned are rows of the wallets table, and the ordered fetch finds them.
C33_WalletNotFoundUnreachable ==
    [][/\ DOMAIN wallets \subseteq DOMAIN wallets'
       /\ \A p \in DOMAIN pc :
             /\ result'[p].status # "WalletNotFound"
             /\ pc'[p] \in {"begin", "fetch"}
                => /\ {userWallet'[p], treasuryWallet'[p]} \subseteq DOMAIN wallets'
                   /\ {userWallet'[p], treasuryWallet'[p]}
                        \subseteq Range(FindManyByIds(wallets',
                                     Sort(<<treasuryWallet'[p], userWallet'[p]>>)))]_vars

\* A transfer into the wallet that its own call created has committed, and
\* so has a transfer whose two wallets are one row.
C33_Witness ==
    /\ \E i \in DOMAIN ledger :
          /\ ledger[i].receiverWalletId \notin DOMAIN FundedWallets
          /\ wallets[ledger[i].receiverWalletId].balance = 60
    /\ \E i \in DOMAIN ledger : ledger[i].senderWalletId = ledger[i].receiverWalletId

\* C34: a balance changes only in the commit of a transfer, and only on the
\* wallets that transfer names: the wallet of the requested asset type of the
\* user and that of the Treasury.  Every other wallet, the same accounts'
\* wallets of other asset types included, keeps its balance, and a call that
\* fails changes no balance at all.
C34_OnlyNamedWalletsChange ==
    [][/\ \A w \in DOMAIN wallets :
             wallets'[w].balance # wallets[w].balance
             => \E p \in DOMAIN pc :
                   /\ Commits(p)
                   /\ w \in {userWallet[p], treasuryWallet[p]}
                   /\ wallets[w].assetTypeId = req[p].assetTypeName
                   /\ wallets[w].userId \in {req[p].userId, TreasuryUserId}
       /\ \A p \in DOMAIN pc :
             (Returns(p) /\ result'[p].status # "OK")
             => \A w \in DOMAIN wallets : wallets'[w].balance = wallets[w].balance]_vars

\* carol holds 60 DIAMOND from a first topUp; a GOLD topUp then raised
\* alice's GOLD wallet and left the DIAMOND wallets as they were.
C34_Witness ==
    /\ wallets[AliceWallet].balance = 160
    /\ \E w \in WalletsOfAsset("DIAMOND") :
          wallets[w].userId = "carol" /\ wallets[w].balance = 60
    /\ wallets[4].balance = TreasuryInitialBalance - 60
    /\ ledger[Len(ledger)].receiverWalletId = AliceWallet

\* Exactly one of the entry's two wallets belongs to the Treasury account.
OneTreasurySide(e) ==
    (wallets[e.senderWalletId].userId = TreasuryUserId)
    # (wallets[e.receiverWalletId].userId = TreasuryUserId)

SameAsset(e) ==
    wallets[e.senderWalletId].assetTypeId = wallets[e.receiverWalletId].assetTypeId

\* C35: the sender wallet and the receiver wallet of every ledger entry have
\* the same asset type, and exactly one of them belongs to the Treasury
\* account whenever the entry's user account is not the Treasury (the entry
\* then has two distinct wallets).
C35_SameAssetOneTreasurySide ==
    /\ \A i \in DOMAIN ledger :
          /\ SameAsset(ledger[i])
          /\ ledger[i].senderWalletId # ledger[i].receiverWalletId
             => OneTreasurySide(ledger[i])
    /\ \A p \in DOMAIN pc : \A i \in DOMAIN txLedger[p] :
          /\ SameAsset(txLedger[p][i])
          /\ wallets[txLedger[p][i].senderWalletId].assetTypeId = req[p].assetTypeName
          /\ req[p].userId # TreasuryUserId => OneTreasurySide(txLedger[p][i])

\* The ledger holds a DIAMOND deposit from the Treasury to carol and a GOLD
\* spend from alice to the Treasury.
C35_Witness ==
    /\ \E i \in DOMAIN ledger :
          /\ ledger[i].senderWalletId = 4
          /\ wallets[ledger[i].receiverWalletId].userId = "carol"
          /\ wallets[ledger[i].receiverWalletId].assetTypeId = "DIAMOND"
    /\ \E i \in DOMAIN ledger :
          /\ ledger[i].senderWalletId = AliceWallet
          /\ wallets[ledger[i].receiverWalletId].userId = TreasuryUserId

(***************************************************************************)
(* One key, many requests: every call carries the key "k1" and differs     *)
(* from the others in operation, account, asset type or amount.            *)
(***************************************************************************)
KeyArgs ==
    Args(Ops, {"alice"}, GoldAndDiamond, {60, 70}, {"k1"})
    \cup Args(Ops, {"bob"}, GoldOnly, {60, 70}, {"k1"})

KeyNext ==
    \E p \in Procs :
        \/ \E args \in KeyArgs : calls < MaxCalls /\ Call(p, args)
        \/ Lookup(p)
        \/ Step(p)
        \/ DeadlockAbort(p)

KeySpec == ValidInit /\ [][KeyNext]_vars

\* C36: the idempotency lookup looks at the key alone.  A call whose key is
\* carried by a committed entry ends at the lookup and changes nothing,
\* whatever operation, account, asset type and amount the entry was made
\* for: issueBonus and spend return an entry that carries the key, topUp is
\* rejected.
C36_LookupIgnoresArguments ==
    [][\A p \in DOMAIN pc :
          (/\ pc[p] = "lookup" /\ pc'[p] # "lookup"
           /\ Truthy(req[p].idempotencyKey) /\ KeyCarried(req[p].idempotencyKey))
          => /\ Returns(p)
             /\ wallets' = wallets
             /\ ledger' = ledger
             /\ IF req[p].op = "topUp"
                THEN result'[p].status = "DuplicateRequest"
                ELSE /\ result'[p].status = "OK"
                     /\ result'[p].replayed
                     /\ result'[p].entry \in DOMAIN ledger
                     /\ ledger[result'[p].entry].metadata = req[p].idempotencyKey]_vars

\* bob's GOLD spend of 70 returned the entry of alice's DIAMOND topUp of 60.
C36_Witness ==
    \E p \in DOMAIN pc :
        /\ Done(p) /\ result[p].status = "OK" /\ result[p].replayed
        /\ req[p].op = "spend" /\ req[p].userId = "bob"
        /\ req[p].assetTypeName = "GOLD" /\ req[p].amount = 70
        /\ ledger[result[p].entry].type = "DEPOSIT"
        /\ ledger[result[p].entry].amount = 60
        /\ wallets[ledger[result[p].entry].receiverWalletId].userId = "alice"
        /\ wallets[ledger[result[p].entry].receiverWalletId].assetTypeId = "DIAMOND"
        /\ Len(ledger) = 2

(***************************************************************************)
(* A key used again after a failure: the caller of a call that failed      *)
(* sends a request with the same key, and possibly other arguments.        *)
(***************************************************************************)
ReuseArgs ==
    Args(Ops, {"alice"}, AssetNames, {100, TreasuryInitialBalance - 100}, {"k1"})

\* The caller's next request with the key of its call that failed;
\* attempts counts the handler's calls with that key.
CallAgain(p, args) ==
    /\ pc[p] = "done"
    /\ result[p].status \notin {"OK", "NONE"}
    /\ Truthy(req[p].idempotencyKey)
    /\ args.idempotencyKey = req[p].idempotencyKey
    /\ calls' = calls + 1
    /\ req' = [req EXCEPT ![p] = args]
    /\ pc' = [pc EXCEPT ![p] = Following("call", args.idempotencyKey)]
    /\ result' = [result EXCEPT ![p] = NoResult]
    /\ attempts' = [attempts EXCEPT ![p] = @ + 1]
    /\ UNCHANGED <<users, wallets, ledger, userWallet, treasuryWallet, snap, locked,
                   txLedger, clock, view, overlapped, rd>>

ReuseNext ==
    \E p \in Procs :
        \/ \E args \in ReuseArgs : pc[p] = "idle" /\ calls < MaxCalls /\ Call(p, args)
        \/ \E args \in ReuseArgs : calls <= MaxCalls /\ CallAgain(p, args)
        \/ Lookup(p)
        \/ Step(p)
        \/ DeadlockAbort(p)

ReuseSpec == ValidInit /\ [][ReuseNext]_vars

\* C37: a call that fails leaves the ledger as it was, so its key is carried
\* by no entry because of it; and a call with a key that no entry carries,
\* a call that follows a failed call with that key included, is processed as
\* a fresh request: it is not rejected as a duplicate and returns no earlier
\* entry.
C37_FailureKeepsKeyFree ==
    [][\A p \in DOMAIN pc :
          /\ (Returns(p) /\ result'[p].status # "OK")
             => /\ ledger' = ledger
                /\ KeyCarried(req[p].idempotencyKey)' = KeyCarried(req[p].idempotencyKey)
          /\ (/\ pc[p] = "lookup" /\ pc'[p] # "lookup"
              /\ attempts[p] > 1
              /\ ~KeyCarried(req[p].idempotencyKey))
             => /\ result'[p].status # "DuplicateRequest"
                /\ ~result'[p].replayed
                /\ pc'[p] = "asset"]_vars

\* A call with key k1 failed; the topUp its caller then sent with k1 has
\* committed, as the one entry that carries k1.
C37_Witness ==
    \E p \in DOMAIN pc :
        /\ attempts[p] = 2 /\ Done(p)
        /\ req[p].op = "topUp" /\ req[p].idempotencyKey = "k1"
        /\ result[p].status = "OK" /\ ~result[p].replayed
        /\ FindByIdempotencyKey(ledger, "k1") = {result[p].entry}
        /\ \A q \in DOMAIN pc : q # p => pc[q] = "idle"

(***************************************************************************)
(* Calls without a key: the key is absent or the empty string; calls with  *)
(* the key "k1" run beside them.                                           *)
(***************************************************************************)
KeylessArgs == Args(Ops, {"alice"}, GoldOnly, {30}, {Undefined, "", "k1"})

KeylessNext ==
    \E p \in Procs :
        \/ \E args \in KeylessArgs : calls < MaxCalls /\ Call(p, args)
        \/ Lookup(p)
        \/ Step(p)
        \/ DeadlockAbort(p)

KeylessSpec == ValidInit /\ [][KeylessNext]_vars

Keyless(p) == req[p].idempotencyKey \in {Undefined, ""}

\* C38: a call without a key (absent or empty) never makes the idempotency
\* lookup and never ends as a duplicate or a replay; each such call that
\* commits appends one new ledger entry, which carries no key, and moves
\* its amount once more; and an entry without a key is never what a lookup
\* returns.
C38_KeylessNeverDeduplicated ==
    [][\A p \in DOMAIN pc :
          /\ (Called(p) /\ Keyless(p)') => pc'[p] = "asset"
          /\ (Returns(p) /\ Keyless(p))
             => result'[p].status # "DuplicateRequest" /\ ~result'[p].replayed
          /\ (Commits(p) /\ Keyless(p))
             => /\ Len(ledger') = Len(ledger) + 1
                /\ SubSeq(ledger', 1, Len(ledger)) = ledger
                /\ result'[p].entry = Len(ledger')
                /\ ledger'[Len(ledger')].metadata = NoMetadata
                /\ ledger'[Len(ledger')].amount = req[p].amount
                /\ wallets'[ledger'[Len(ledger')].receiverWalletId].balance
                     = wallets[ledger'[Len(ledger')].receiverWalletId].balance + req[p].amount
                /\ wallets'[ledger'[Len(ledger')].senderWalletId].balance
                     = wallets[ledger'[Len(ledger')].senderWalletId].balance - req[p].amount
          /\ (Returns(p) /\ result'[p].replayed)
             => ledger[result'[p].entry].metadata \notin {NoMetadata, Undefined, ""}]_vars

\* Two topUp calls with the same arguments and the empty string as key have
\* both committed: two more entries without a key, and alice holds 60 more.
C38_Witness ==
    /\ \A p \in DOMAIN pc :
          /\ Done(p) /\ result[p].status = "OK" /\ ~result[p].replayed
          /\ req[p].op = "topUp" /\ req[p].idempotencyKey = ""
    /\ Len(ledger) = Len(FundedLedger) + 2
    /\ \A i \in DOMAIN ledger : ledger[i].metadata = NoMetadata
    /\ wallets[AliceWallet].balance = 160

(***************************************************************************)
(* The HTTP routes POST /transactions/top-up, /bonus and /spend.  A body   *)
(* is the request's JSON object: a field that is absent is Undefined, and   *)
(* amountGiven tells whether the field amount is there.                     *)
(***************************************************************************)
Bodies ==
    [op : Ops, userId : {Undefined, "alice"}, assetTypeName : {Undefined, "GOLD"},
     amountGiven : BOOLEAN, amount : {-1, 0, 30},
     description : {Undefined, "purchase"}, idempotencyKey : {Undefined}]

\* !x for a string field: absent or empty.
Falsy(x) == x \in {Undefined, ""}

\* Mutant: the routes check the required fields only.
RouteRejectsMissingOnly(body) ==
    \/ Falsy(body.userId)
    \/ Falsy(body.assetTypeName)
    \/ ~body.amountGiven
    \/ body.op = "spend" /\ Falsy(body.description)

\* The two checks of a route that answer 400.
RouteRejects(body) ==
    \/ Falsy(body.userId)
    \/ Falsy(body.assetTypeName)
    \/ ~body.amountGiven
    \/ body.op = "spend" /\ Falsy(body.description)
    \/ body.amount <= 0

\* A request arrives at handler p: the route answers 400, or calls the
\* operation of the service with the fields of the body.
Post(p, body) ==
    /\ pc[p] = "idle"
    /\ calls' = calls + 1
    /\ req' = [req EXCEPT ![p] = body]
    /\ attempts' = [attempts EXCEPT ![p] = 1]
    /\ IF RouteRejects(body)
       THEN /\ result' = [result EXCEPT ![p] =
                            [status |-> "400", entry |-> 0, replayed |-> FALSE]]
            /\ pc' = [pc EXCEPT ![p] = "done"]
       ELSE /\ result' = [result EXCEPT ![p] = NoResult]
            /\ pc' = [pc EXCEPT ![p] = Following("call", body.idempotencyKey)]
    /\ UNCHANGED <<users, wallets, ledger, userWallet, treasuryWallet, snap, locked,
                   txLedger, clock, view, overlapped, rd>>

RouteNext ==
    \E p \in Procs :
        \/ \E body \in Bodies : Post(p, body)
        \/ Step(p)
        \/ DeadlockAbort(p)

RouteSpec == ValidInit /\ [][RouteNext]_vars

\* The body lacks a required field or its amount is not positive.
BadBody(body) ==
    \/ body.userId = Undefined
    \/ body.assetTypeName = Undefined
    \/ ~body.amountGiven
    \/ body.op = "spend" /\ body.description = Undefined
    \/ body.amountGiven /\ body.amount <= 0

\* C39: a request whose amount is <= 0, or that lacks userId, assetType or
\* amount (for spend also description), is answered 400 by its route at
\* once: the operation of the service is never entered for it, no wallet
\* changes and no ledger entry is created.
C39_RoutesReject ==
    [][\A p \in DOMAIN pc :
          /\ (pc[p] = "idle" /\ pc'[p] # "idle" /\ BadBody(req'[p]))
             => /\ pc'[p] = "done"
                /\ result'[p].status = "400"
                /\ wallets' = wallets
                /\ ledger' = ledger
                /\ txLedger' = txLedger
          /\ (pc[p] \notin {"idle", "done"}) => ~BadBody(req[p])]_vars

\* One request with amount 0 was answered 400 while the other request, a
\* spend with every field, went through the service and committed.
C39_Witness ==
    \E p, q \in DOMAIN pc :
        /\ Done(p) /\ result[p].status = "400"
        /\ req[p].amountGiven /\ req[p].amount = 0 /\ req[p].userId = "alice"
        /\ req[p].assetTypeName = "GOLD" /\ req[p].description = "purchase"
        /\ Done(q) /\ result[q].status = "OK" /\ req[q].op = "spend"
        /\ Len(ledger) = Len(FundedLedger) + 1

====
